---- MODULE Spec2Model ----
(***************************************************************************)
(* Model of HSAPlatform (src/src/hsa_platform.cpp): the per-device         *)
(* program/kernel cache filled by load_kernel, the kernel dispatch of      *)
(* launch_kernel (completion signal, AQL queue, detached profiling unit)   *)
(* and synchronize, executed by several host threads and the packet        *)
(* processor of the device.                                                *)
(***************************************************************************)
EXTENDS Integers, Sequences, FiniteSets, TLC

\* ---------------------------------------------------------------- bounds
NumThreads == 2
NumDevices == 1
MaxCalls == 2
QueueSizeLog2 == 1
MaxElapsed == 1
LiveCalls == 1

Threads == 1..NumThreads
Devices == 0..(NumDevices - 1)
NoThread == 0
NoExec == 0
NoLaunch == 0

\* File names are sequences of tokens, "." being the separator rfind looks for.
KernelGcn == <<"kernel", ".", "gcn">>
FileNames == {KernelGcn}
KernelNames == {"f"}
ElapsedTimes == 1..MaxElapsed

\* ------------------------------------------------------------- variables
VARIABLES
    profiling,          \* runtime_->profiling_enabled()
    files_,             \* files_: registered file name -> program string
    locked,             \* devices_[d] lock: the thread holding it, or NoThread
    programs,           \* devices_[d].programs: file name -> executable handle
    kernels,            \* devices_[d].kernels: handle -> (kernel name -> tuple)
    execs,              \* every executable created: handle -> [dev, file, stage]
    signal,             \* value of devices_[d].signal
    write_index,        \* write index of devices_[d].queue
    read_index,         \* read index of devices_[d].queue (packet processor)
    slots,              \* ring buffer of devices_[d].queue
    doorbell,           \* devices_[d].queue->doorbell_signal
    launches,           \* every launch that incremented the signal, in order
    anydsl_kernel_time, \* accumulated kernel time
    thr,                \* per host thread: position and locals
    calls,              \* calls made so far by each host thread
    sizes,              \* launch_kernel argument packing: sizes[0..num_args)
    offset,             \* launch_kernel argument packing: size_t offset
    offsets,            \* destination offset of each memcpy done so far
    queue,              \* devices_[d].queue is non-null
    fatal,              \* the error() that terminated the process, if any
    jit,                \* the runtime is built with RUNTIME_ENABLE_JIT
    args,               \* per host thread: sizes of the arguments it passes
    kernargs,           \* every kernarg buffer allocated by launch_kernel
    exec_src,           \* per executable: the code it was created from
    agents,             \* the agents hsa_iterate_agents enumerates, in order
    devices_,           \* devices_: the device table filled by discovery
    disc,               \* position and locals of the discovery in progress
    failed,             \* the driver calls of discovery that returned an error
    allocs,             \* every call of alloc_hsa, with the driver calls it made
    cuDimProblem,       \* cu_runtime.cpp: dim3 cuDimProblem
    cuDimBlock,         \* cu_runtime.cpp: dim3 cuDimBlock
    cuLaunch,           \* cu_runtime.cpp: the last cuLaunchKernel call
    cuArgs,             \* cu_runtime.cpp: void **cuArgs, the allocated array
    cuArgIdx,           \* cu_runtime.cpp: int cuArgIdx
    cuArgIdxMax,        \* cu_runtime.cpp: int cuArgIdxMax
    cuPassed,           \* pointers given to set_kernel_arg since the last launch
    teardown            \* ~HSAPlatform: position, and the destroy calls made

hsaVars == <<profiling, files_, locked, programs, kernels, execs, signal,
             write_index, read_index, slots, doorbell, launches,
             anydsl_kernel_time, thr, calls>>

packVars == <<sizes, offset, offsets>>
launchExtVars == <<queue, fatal, jit, args, kernargs, exec_src>>

\* the variables the dispatch path of HSAPlatform does not touch
discVars == <<agents, devices_, disc, failed>>
allocVars == <<allocs>>
cuArgVars == <<cuArgs, cuArgIdx, cuArgIdxMax, cuPassed>>
cudaVars == <<cuDimProblem, cuDimBlock, cuLaunch, cuArgVars>>
dtorVars == <<teardown>>
restVars == <<packVars, launchExtVars, discVars, allocVars, cudaVars,
              dtorVars>>
notPackVars == <<hsaVars, launchExtVars, discVars, allocVars, cudaVars,
                 dtorVars>>
notLaunchVars == <<packVars, discVars, allocVars, cudaVars, dtorVars>>
notDiscVars == <<hsaVars, packVars, queue, jit, args, kernargs, exec_src,
                 allocVars, cudaVars, dtorVars>>
notAllocVars == <<hsaVars, packVars, queue, jit, args, kernargs, exec_src,
                  discVars, cudaVars, dtorVars>>
notCudaVars == <<hsaVars, packVars, launchExtVars, discVars, allocVars,
                 dtorVars>>
notDtorVars == <<hsaVars, packVars, launchExtVars, discVars, allocVars,
                 cudaVars>>

vars == <<hsaVars, restVars>>

cacheVars == <<locked, programs, kernels, execs>>
queueVars == <<write_index, read_index, slots, doorbell>>
launchVars == <<signal, launches, anydsl_kernel_time>>

\* --------------------------------------------------------------- helpers
Pow2(n) == 2^n
QueueSize == Pow2(QueueSizeLog2)
\* index & (queue->size - 1), queue->size a power of two
QueueMask(index) == index % QueueSize

DeviceSignal(d) == <<"device", d>>
LaunchSignal(l) == <<"launch", l>>
NoSignal == <<"none", 0>>

\* a ring slot holding no packet (header type HSA_PACKET_TYPE_INVALID)
NoPacket ==
    [launch |-> NoLaunch, completion_signal |-> NoSignal,
     kernel_object |-> <<NoExec, "">>]
IsPacket(p) == p.launch # NoLaunch

\* position of the last "." of a file name, 0 if there is none (rfind)
RFindDot(filename) ==
    LET dots == {i \in 1..Len(filename) : filename[i] = "."}
    IN  IF dots = {} THEN 0 ELSE CHOOSE i \in dots : \A j \in dots : j <= i

\* filename.substr(ext_pos + 1), joined back to one token sequence
Ext(filename) ==
    IF RFindDot(filename) = 0 THEN <<>>
    ELSE SubSeq(filename, RFindDot(filename) + 1, Len(filename))

\* the four values hsa_executable_symbol_get_info reports for a kernel symbol
SymbolInfo(executable, kernelname) ==
    [kernel |-> <<executable, kernelname>>,
     kernarg_segment_size |-> IF kernelname = "f" THEN 8 ELSE 16,
     group_segment_size |-> 0,
     private_segment_size |-> 0]

NoKernel ==
    [kernel |-> <<NoExec, "">>,
     kernarg_segment_size |-> 0,
     group_segment_size |-> 0,
     private_segment_size |-> 0]

IdleThread ==
    [pc |-> "idle", dev |-> 0, filename |-> <<>>, kernelname |-> "",
     executable |-> NoExec, kernel |-> NoKernel, index |-> 0,
     launch |-> NoLaunch, launch_signal |-> NoSignal, seen |-> {}]

EmptyMap == [x \in {} |-> 0]

\* files std::ifstream(filename).good() finds on disk
KernelAmdgpu == <<"kernel", ".", "amdgpu">>
KernelGcnBak == <<"kernel", ".", "gcn", ".", "bak">>
ReadableFiles == {KernelAmdgpu, KernelGcnBak}

\* std::ifstream(filename).good() || files_.count(filename)
Available(filename) ==
    filename \in ReadableFiles \/ filename \in DOMAIN files_

Put(f, k, v) == [x \in DOMAIN f \cup {k} |-> IF x = k THEN v ELSE f[x]]

\* ------------------------------------------------------------------ Init
\* InitWith with the device signals created with value 1
InitWith_SignalOne(made) ==
    /\ profiling \in BOOLEAN
    /\ files_ = [f \in FileNames |-> "text"]
    /\ locked = [d \in Devices |-> NoThread]
    /\ programs = [d \in Devices |-> EmptyMap]
    /\ kernels = [d \in Devices |-> EmptyMap]
    /\ execs = <<>>
    /\ signal = [d \in Devices |-> 1]
    /\ write_index = [d \in Devices |-> 0]
    /\ read_index = [d \in Devices |-> 0]
    /\ slots = [d \in Devices |-> [i \in 0..(QueueSize - 1) |-> NoPacket]]
    /\ doorbell = [d \in Devices |-> 0]
    /\ launches = <<>>
    /\ anydsl_kernel_time = 0
    /\ thr = [t \in Threads |-> IdleThread]
    /\ calls = [t \in Threads |-> made]

\* the state after construction; each thread has made `made` of its calls
InitWith(made) ==
    /\ profiling \in BOOLEAN
    /\ files_ = [f \in FileNames |-> "text"]
    /\ locked = [d \in Devices |-> NoThread]
    /\ programs = [d \in Devices |-> EmptyMap]
    /\ kernels = [d \in Devices |-> EmptyMap]
    /\ execs = <<>>
    /\ signal = [d \in Devices |-> 0]
    /\ write_index = [d \in Devices |-> 0]
    /\ read_index = [d \in Devices |-> 0]
    /\ slots = [d \in Devices |-> [i \in 0..(QueueSize - 1) |-> NoPacket]]
    /\ doorbell = [d \in Devices |-> 0]
    /\ launches = <<>>
    /\ anydsl_kernel_time = 0
    /\ thr = [t \in Threads |-> IdleThread]
    /\ calls = [t \in Threads |-> made]

\* no argument list is being packed
PackIdle ==
    /\ sizes = <<>>
    /\ offset = 0
    /\ offsets = <<>>

\* no error() so far
NoError == [message |-> "", thread |-> NoThread]

\* every device can execute kernels, no launch has passed arguments
LaunchExtIdle ==
    /\ queue = [d \in Devices |-> TRUE]
    /\ fatal = NoError
    /\ jit = FALSE
    /\ args = [t \in Threads |-> <<>>]
    /\ kernargs = <<>>
    /\ exec_src = <<>>

\* position of a discovery that has enumerated every agent
DiscDone ==
    [pc |-> "done", agent |-> 0, call |-> 1, region |-> 0, name |-> <<>>,
     isa |-> <<>>, queue |-> FALSE, queues_created |-> 0,
     signals_created |-> 0]

\* discovery is over; the device table is tracked during discovery only
DiscIdle ==
    /\ agents = <<>>
    /\ devices_ = <<>>
    /\ disc = DiscDone
    /\ failed = {}

\* alloc_hsa has not been called
AllocIdle == allocs = <<>>

\* dim3(): every component defaults to 1
Dim3(x, y, z) == [x |-> x, y |-> y, z |-> z]

\* cuLaunchKernel has not been called
NoCall == [problem |-> Dim3(0, 0, 0), block |-> Dim3(0, 0, 0),
           grid |-> Dim3(0, 0, 0)]

\* the globals of cu_runtime.cpp as they are constructed
\* an element of cuArgs that has been allocated and not written
Uninit == 0

\* the dim3 globals as constructed, the argument array as init_cuda leaves it
CudaIdle ==
    /\ cuDimProblem = Dim3(1, 1, 1)
    /\ cuDimBlock = Dim3(1, 1, 1)
    /\ cuLaunch = NoCall
    /\ cuArgs = <<Uninit>>
    /\ cuArgIdx = 0
    /\ cuArgIdxMax = 1
    /\ cuPassed = <<>>

\* the platform object is alive: ~HSAPlatform has not been entered
DtorIdle ==
    teardown = [pc |-> "live", dev |-> 0, pending |-> {}, log |-> <<>>]

RestIdle ==
    PackIdle /\ LaunchExtIdle /\ DiscIdle /\ AllocIdle /\ CudaIdle /\ DtorIdle

Init == InitWith(0) /\ RestIdle

\* ----------------------------------------------------------- load_kernel
\* launch_kernel entry: the queue check, then the call of load_kernel
CallLaunchKernel(t, d, filename, kernelname) ==
    /\ thr[t].pc = "idle"
    /\ calls[t] < MaxCalls
    /\ thr' = [thr EXCEPT ![t] = [IdleThread EXCEPT !.pc = "lk_lock",
                  !.dev = d, !.filename = filename, !.kernelname = kernelname]]
    /\ calls' = [calls EXCEPT ![t] = @ + 1]
    /\ UNCHANGED <<profiling, files_, cacheVars, queueVars, launchVars>>

\* hsa_dev.lock(): blocks until the device lock is free
Lock(t, from, to) ==
    /\ thr[t].pc = from
    /\ locked[thr[t].dev] = NoThread
    /\ locked' = [locked EXCEPT ![thr[t].dev] = t]
    /\ thr' = [thr EXCEPT ![t].pc = to]
    /\ UNCHANGED <<profiling, files_, programs, kernels, execs, queueVars,
                   launchVars, calls>>

LkLock(t) == Lock(t, "lk_lock", "lk_find_prog")

\* LkFindProg whose miss path goes on to the build without unlock()
LkFindProg_KeepLock(t) ==
    LET d == thr[t].dev
        filename == thr[t].filename
    IN  /\ thr[t].pc = "lk_find_prog"
        /\ IF filename \in DOMAIN programs[d]
           THEN thr' = [thr EXCEPT ![t].pc = "lk_find_kernel",
                                   ![t].executable = programs[d][filename]]
           ELSE thr' = [thr EXCEPT ![t].pc = "lk_create"]
        /\ UNCHANGED <<profiling, files_, cacheVars, queueVars, launchVars,
                       calls>>

\* prog_cache.find(filename): a hit keeps the lock, a miss releases it
LkFindProg(t) ==
    LET d == thr[t].dev
        filename == thr[t].filename
    IN  /\ thr[t].pc = "lk_find_prog"
        /\ IF filename \in DOMAIN programs[d]
           THEN /\ thr' = [thr EXCEPT ![t].pc = "lk_find_kernel",
                                      ![t].executable = programs[d][filename]]
                /\ UNCHANGED locked
           ELSE /\ thr' = [thr EXCEPT ![t].pc = "lk_create"]
                /\ locked' = [locked EXCEPT ![d] = NoThread]
        /\ UNCHANGED <<profiling, files_, programs, kernels, execs, queueVars,
                       launchVars, calls>>

\* extension check, load_file, reader and hsa_executable_create_alt
LkCreate(t) ==
    LET handle == Len(execs) + 1
    IN  /\ thr[t].pc = "lk_create"
        /\ Ext(thr[t].filename) \in {<<"gcn">>, <<"amdgpu">>}
        /\ Available(thr[t].filename)
        /\ execs' = Append(execs, [dev |-> thr[t].dev,
                                   file |-> thr[t].filename,
                                   stage |-> "created"])
        /\ thr' = [thr EXCEPT ![t].pc = "lk_load_code",
                              ![t].executable = handle]
        /\ UNCHANGED <<profiling, files_, locked, programs, kernels,
                       queueVars, launchVars, calls>>

\* one of the build steps of the thread's own executable
BuildStep(t, from, to, stage) ==
    /\ thr[t].pc = from
    /\ execs' = [execs EXCEPT ![thr[t].executable].stage = stage]
    /\ thr' = [thr EXCEPT ![t].pc = to]
    /\ UNCHANGED <<profiling, files_, locked, programs, kernels, queueVars,
                   launchVars, calls>>

\* hsa_executable_load_agent_code_object
LkLoadCode(t) == BuildStep(t, "lk_load_code", "lk_freeze", "loaded")

\* LkFreeze with the validation step left out
LkFreeze_SkipValidate(t) ==
    BuildStep(t, "lk_freeze", "lk_relock_prog", "frozen")

\* hsa_executable_freeze, hsa_code_object_reader_destroy
LkFreeze(t) == BuildStep(t, "lk_freeze", "lk_validate", "frozen")

\* hsa_executable_validate
LkValidate(t) == BuildStep(t, "lk_validate", "lk_relock_prog", "validated")

\* LkRelockProg that goes on to the cache insert without taking the lock
LkRelockProg_NoLock(t) ==
    /\ thr[t].pc = "lk_relock_prog"
    /\ thr' = [thr EXCEPT ![t].pc = "lk_publish_prog"]
    /\ UNCHANGED <<profiling, files_, cacheVars, queueVars, launchVars, calls>>

\* hsa_dev.lock() before the program cache insert
LkRelockProg(t) == Lock(t, "lk_relock_prog", "lk_publish_prog")

\* prog_cache[filename] = executable
LkPublishProg(t) ==
    LET d == thr[t].dev
    IN  /\ thr[t].pc = "lk_publish_prog"
        /\ programs' = [programs EXCEPT
                          ![d] = Put(@, thr[t].filename, thr[t].executable)]
        /\ thr' = [thr EXCEPT ![t].pc = "lk_find_kernel"]
        /\ UNCHANGED <<profiling, files_, locked, kernels, execs, queueVars,
                       launchVars, calls>>

\* LkFindKernel that does not copy the cached tuple out on a hit
LkFindKernel_HitNoTie(t) ==
    LET d == thr[t].dev
        e == thr[t].executable
        kernel_map == IF e \in DOMAIN kernels[d] THEN kernels[d][e] ELSE EmptyMap
    IN  /\ thr[t].pc = "lk_find_kernel"
        /\ kernels' = [kernels EXCEPT ![d] = Put(@, e, kernel_map)]
        /\ IF thr[t].kernelname \in DOMAIN kernel_map
           THEN /\ thr' = [thr EXCEPT ![t].pc = "lk_unlock"]
                /\ UNCHANGED locked
           ELSE /\ thr' = [thr EXCEPT ![t].pc = "lk_symbol"]
                /\ locked' = [locked EXCEPT ![d] = NoThread]
        /\ UNCHANGED <<profiling, files_, programs, execs, queueVars,
                       launchVars, calls>>

\* kernel_cache[executable.handle] (inserts an empty map), then find(kernelname)
LkFindKernel(t) ==
    LET d == thr[t].dev
        e == thr[t].executable
        kernel_map == IF e \in DOMAIN kernels[d] THEN kernels[d][e] ELSE EmptyMap
    IN  /\ thr[t].pc = "lk_find_kernel"
        /\ kernels' = [kernels EXCEPT ![d] = Put(@, e, kernel_map)]
        /\ IF thr[t].kernelname \in DOMAIN kernel_map
           THEN /\ thr' = [thr EXCEPT ![t].pc = "lk_unlock",
                                      ![t].kernel = kernel_map[thr[t].kernelname]]
                /\ UNCHANGED locked
           ELSE /\ thr' = [thr EXCEPT ![t].pc = "lk_symbol"]
                /\ locked' = [locked EXCEPT ![d] = NoThread]
        /\ UNCHANGED <<profiling, files_, programs, execs, queueVars,
                       launchVars, calls>>

\* hsa_executable_get_symbol_by_name and the four hsa_executable_symbol_get_info
LkSymbol(t) ==
    /\ thr[t].pc = "lk_symbol"
    /\ thr' = [thr EXCEPT ![t].pc = "lk_relock_kernel",
                 ![t].kernel = SymbolInfo(thr[t].executable, thr[t].kernelname)]
    /\ UNCHANGED <<profiling, files_, cacheVars, queueVars, launchVars, calls>>

LkRelockKernel(t) == Lock(t, "lk_relock_kernel", "lk_publish_kernel")

\* kernel_cache[executable.handle].emplace(kernelname, tuple): keeps an
\* entry that is already there
LkPublishKernel(t) ==
    LET d == thr[t].dev
        e == thr[t].executable
        k == thr[t].kernelname
    IN  /\ thr[t].pc = "lk_publish_kernel"
        /\ kernels' = [kernels EXCEPT ![d][e] =
                          IF k \in DOMAIN @ THEN @ ELSE Put(@, k, thr[t].kernel)]
        /\ thr' = [thr EXCEPT ![t].pc = "lk_unlock"]
        /\ UNCHANGED <<profiling, files_, locked, programs, execs, queueVars,
                       launchVars, calls>>

\* hsa_dev.unlock() and return of the tuple; back in launch_kernel the
\* kernarg buffer is allocated and the arguments are packed
LkUnlock(t) ==
    /\ thr[t].pc = "lk_unlock"
    /\ locked' = [locked EXCEPT ![thr[t].dev] = NoThread]
    /\ thr' = [thr EXCEPT ![t].pc = "signal_add"]
    /\ UNCHANGED <<profiling, files_, programs, kernels, execs, queueVars,
                   launchVars, calls>>

\* --------------------------------------------------------- launch_kernel
\* value of a completion signal
SignalValue(s) ==
    IF s[1] = "device" THEN signal[s[2]] ELSE launches[s[2]].value

\* SignalAdd that uses the device signal as launch_signal also when profiling
SignalAdd_SharedSignal(t) ==
    LET d == thr[t].dev
        l == Len(launches) + 1
        launch_signal == DeviceSignal(d)
    IN  /\ thr[t].pc = "signal_add"
        /\ signal' = [signal EXCEPT ![d] = @ + 1]
        /\ launches' = Append(launches,
              [dev |-> d, profiled |-> profiling, index |-> -1,
               launch_signal |-> launch_signal,
               value |-> IF profiling THEN 1 ELSE 0,
               created |-> IF profiling THEN 1 ELSE 0, destroyed |-> 0,
               kernel_done |-> FALSE, elapsed |-> 0, added |-> 0,
               subtracted |-> 0, unit |-> "none", returned |-> FALSE])
        /\ thr' = [thr EXCEPT ![t].pc = "load_index", ![t].launch = l,
                              ![t].launch_signal = launch_signal]
        /\ UNCHANGED <<profiling, files_, cacheVars, queueVars,
                       anydsl_kernel_time, calls>>

\* SignalAdd without the increment of the device signal
SignalAdd_NoIncrement(t) ==
    LET d == thr[t].dev
        l == Len(launches) + 1
        launch_signal == IF profiling THEN LaunchSignal(l) ELSE DeviceSignal(d)
    IN  /\ thr[t].pc = "signal_add"
        /\ signal' = signal
        /\ launches' = Append(launches,
              [dev |-> d, profiled |-> profiling, index |-> -1,
               launch_signal |-> launch_signal,
               value |-> IF profiling THEN 1 ELSE 0,
               created |-> IF profiling THEN 1 ELSE 0, destroyed |-> 0,
               kernel_done |-> FALSE, elapsed |-> 0, added |-> 0,
               subtracted |-> 0, unit |-> "none", returned |-> FALSE])
        /\ thr' = [thr EXCEPT ![t].pc = "load_index", ![t].launch = l,
                              ![t].launch_signal = launch_signal]
        /\ UNCHANGED <<profiling, files_, cacheVars, queueVars,
                       anydsl_kernel_time, calls>>

\* hsa_signal_add_relaxed(signal, 1), then the choice of launch_signal:
\* a signal created with value 1 when profiling, else the device signal
SignalAdd(t) ==
    LET d == thr[t].dev
        l == Len(launches) + 1
        launch_signal == IF profiling THEN LaunchSignal(l) ELSE DeviceSignal(d)
    IN  /\ thr[t].pc = "signal_add"
        /\ signal' = [signal EXCEPT ![d] = @ + 1]
        /\ launches' = Append(launches,
              [dev |-> d, profiled |-> profiling, index |-> -1,
               launch_signal |-> launch_signal,
               value |-> IF profiling THEN 1 ELSE 0,
               created |-> IF profiling THEN 1 ELSE 0, destroyed |-> 0,
               kernel_done |-> FALSE, elapsed |-> 0, added |-> 0,
               subtracted |-> 0, unit |-> "none", returned |-> FALSE])
        /\ thr' = [thr EXCEPT ![t].pc = "load_index", ![t].launch = l,
                              ![t].launch_signal = launch_signal]
        /\ UNCHANGED <<profiling, files_, cacheVars, queueVars,
                       anydsl_kernel_time, calls>>

\* index = hsa_queue_load_write_index_relaxed(queue)
LoadIndex(t) ==
    /\ thr[t].pc = "load_index"
    /\ thr' = [thr EXCEPT ![t].pc = "write_packet",
                          ![t].index = write_index[thr[t].dev]]
    /\ launches' = [launches EXCEPT
                      ![thr[t].launch].index = write_index[thr[t].dev]]
    /\ UNCHANGED <<profiling, files_, cacheVars, queueVars, signal,
                   anydsl_kernel_time, calls>>

\* WritePacket whose packet always completes on the device signal
WritePacket_DeviceSignal(t) ==
    LET d == thr[t].dev
        aql == [launch |-> thr[t].launch,
                completion_signal |-> DeviceSignal(d),
                kernel_object |-> thr[t].kernel.kernel]
    IN  /\ thr[t].pc = "write_packet"
        /\ slots' = [slots EXCEPT ![d][QueueMask(thr[t].index)] = aql]
        /\ thr' = [thr EXCEPT ![t].pc = "store_index"]
        /\ UNCHANGED <<profiling, files_, cacheVars, write_index, read_index,
                       doorbell, launchVars, calls>>

\* base_address[index & queue_mask] = aql
WritePacket(t) ==
    LET d == thr[t].dev
        aql == [launch |-> thr[t].launch,
                completion_signal |-> thr[t].launch_signal,
                kernel_object |-> thr[t].kernel.kernel]
    IN  /\ thr[t].pc = "write_packet"
        /\ slots' = [slots EXCEPT ![d][QueueMask(thr[t].index)] = aql]
        /\ thr' = [thr EXCEPT ![t].pc = "store_index"]
        /\ UNCHANGED <<profiling, files_, cacheVars, write_index, read_index,
                       doorbell, launchVars, calls>>

\* StoreIndex that rings the doorbell without advancing the write index
StoreIndex_Skip(t) ==
    /\ thr[t].pc = "store_index"
    /\ thr' = [thr EXCEPT ![t].pc = "doorbell"]
    /\ UNCHANGED <<profiling, files_, cacheVars, queueVars, launchVars, calls>>

\* hsa_queue_store_write_index_relaxed(queue, index + 1)
StoreIndex(t) ==
    /\ thr[t].pc = "store_index"
    /\ write_index' = [write_index EXCEPT ![thr[t].dev] = thr[t].index + 1]
    /\ thr' = [thr EXCEPT ![t].pc = "doorbell"]
    /\ UNCHANGED <<profiling, files_, cacheVars, read_index, slots, doorbell,
                   launchVars, calls>>

\* hsa_signal_store_relaxed(queue->doorbell_signal, index); when profiling
\* the detached thread is started; launch_kernel returns
Doorbell(t) ==
    /\ thr[t].pc = "doorbell"
    /\ doorbell' = [doorbell EXCEPT ![thr[t].dev] = thr[t].index]
    /\ launches' = [launches EXCEPT
                      ![thr[t].launch].unit = IF profiling THEN "wait" ELSE "none",
                      ![thr[t].launch].returned = TRUE]
    /\ thr' = [thr EXCEPT ![t] = IdleThread]
    /\ UNCHANGED <<profiling, files_, cacheVars, write_index, read_index,
                   slots, signal, anydsl_kernel_time, calls>>

\* ------------------------------------------------- the detached thread
\* UnitWait that goes on to the decrement of the device signal at once
UnitWait_SkipAdd(l) ==
    /\ launches[l].unit = "wait"
    /\ SignalValue(launches[l].launch_signal) = 0
    /\ launches' = [launches EXCEPT ![l].unit = "sub"]
    /\ UNCHANGED <<profiling, files_, cacheVars, queueVars, signal,
                   anydsl_kernel_time, thr, calls>>

\* hsa_signal_wait_relaxed(launch_signal, EQ, 0) returns, then
\* hsa_amd_profiling_get_dispatch_time
UnitWait(l) ==
    /\ launches[l].unit = "wait"
    /\ SignalValue(launches[l].launch_signal) = 0
    /\ launches' = [launches EXCEPT ![l].unit = "add"]
    /\ UNCHANGED <<profiling, files_, cacheVars, queueVars, signal,
                   anydsl_kernel_time, thr, calls>>

\* UnitAdd that stores the elapsed time instead of adding it
UnitAdd_Store(l) ==
    /\ launches[l].unit = "add"
    /\ anydsl_kernel_time' = launches[l].elapsed
    /\ launches' = [launches EXCEPT ![l].unit = "sub", ![l].added = @ + 1]
    /\ UNCHANGED <<profiling, files_, cacheVars, queueVars, signal, thr, calls>>

\* anydsl_kernel_time.fetch_add(elapsed); the counter is 64 bits wide, far
\* beyond the sums reached here
UnitAdd(l) ==
    /\ launches[l].unit = "add"
    /\ anydsl_kernel_time' = anydsl_kernel_time + launches[l].elapsed
    /\ launches' = [launches EXCEPT ![l].unit = "sub", ![l].added = @ + 1]
    /\ UNCHANGED <<profiling, files_, cacheVars, queueVars, signal, thr, calls>>

\* hsa_signal_subtract_relaxed(signal, 1)
UnitSub(l) ==
    /\ launches[l].unit = "sub"
    /\ signal' = [signal EXCEPT ![launches[l].dev] = @ - 1]
    /\ launches' = [launches EXCEPT ![l].unit = "destroy",
                                    ![l].subtracted = @ + 1]
    /\ UNCHANGED <<profiling, files_, cacheVars, queueVars,
                   anydsl_kernel_time, thr, calls>>

\* hsa_signal_destroy(launch_signal)
UnitDestroy(l) ==
    /\ launches[l].unit = "destroy"
    /\ launches' = [launches EXCEPT ![l].unit = "done", ![l].destroyed = @ + 1]
    /\ UNCHANGED <<profiling, files_, cacheVars, queueVars, signal,
                   anydsl_kernel_time, thr, calls>>

\* ------------------------------------------------- the packet processor
\* The device takes the packet at its read index, runs the kernel and
\* decrements the packet's completion signal; the slot becomes invalid.
DeviceExecute(d) ==
    LET p == slots[d][QueueMask(read_index[d])]
        l == p.launch
        s == p.completion_signal
    IN  /\ read_index[d] < write_index[d]
        /\ IsPacket(p)
        /\ \E e \in (IF launches[l].profiled THEN ElapsedTimes ELSE {0}) :
              IF s[1] = "device"
              THEN /\ signal' = [signal EXCEPT ![s[2]] = @ - 1]
                   /\ launches' = [launches EXCEPT ![l].kernel_done = TRUE,
                                                   ![l].elapsed = e]
              ELSE /\ signal' = signal
                   /\ launches' = [launches EXCEPT ![l].kernel_done = TRUE,
                                                   ![l].elapsed = e,
                                                   ![s[2]].value = @ - 1]
        /\ slots' = [slots EXCEPT ![d][QueueMask(read_index[d])] = NoPacket]
        /\ read_index' = [read_index EXCEPT ![d] = @ + 1]
        /\ UNCHANGED <<profiling, files_, cacheVars, write_index, doorbell,
                       anydsl_kernel_time, thr, calls>>

\* ----------------------------------------------------------- synchronize
CallSynchronize(t, d) ==
    /\ thr[t].pc = "idle"
    /\ calls[t] < MaxCalls
    /\ thr' = [thr EXCEPT ![t] = [IdleThread EXCEPT !.pc = "sync_wait",
                  !.dev = d,
                  !.seen = {l \in DOMAIN launches : launches[l].dev = d}]]
    /\ calls' = [calls EXCEPT ![t] = @ + 1]
    /\ UNCHANGED <<profiling, files_, cacheVars, queueVars, launchVars>>

\* SyncReturn that does not wait for the signal to be 0
SyncReturn_NoWait(t) ==
    /\ thr[t].pc = "sync_wait"
    /\ thr' = [thr EXCEPT ![t] = IdleThread]
    /\ UNCHANGED <<profiling, files_, cacheVars, queueVars, launchVars, calls>>

\* hsa_signal_wait_relaxed(signal, EQ, 0, UINT64_MAX) returns
SyncReturn(t) ==
    /\ thr[t].pc = "sync_wait"
    /\ signal[thr[t].dev] = 0
    /\ thr' = [thr EXCEPT ![t] = IdleThread]
    /\ UNCHANGED <<profiling, files_, cacheVars, queueVars, launchVars, calls>>

\* ------------------------------------------------------------------ Next
Next ==
    \/ \E t \in Threads, d \in Devices, f \in FileNames, k \in KernelNames :
          CallLaunchKernel(t, d, f, k) /\ UNCHANGED restVars
    \/ \E t \in Threads : LkLock(t) /\ UNCHANGED restVars
    \/ \E t \in Threads : LkFindProg(t) /\ UNCHANGED restVars
    \/ \E t \in Threads : LkCreate(t) /\ UNCHANGED restVars
    \/ \E t \in Threads : LkLoadCode(t) /\ UNCHANGED restVars
    \/ \E t \in Threads : LkFreeze(t) /\ UNCHANGED restVars
    \/ \E t \in Threads : LkValidate(t) /\ UNCHANGED restVars
    \/ \E t \in Threads : LkRelockProg(t) /\ UNCHANGED restVars
    \/ \E t \in Threads : LkPublishProg(t) /\ UNCHANGED restVars
    \/ \E t \in Threads : LkFindKernel(t) /\ UNCHANGED restVars
    \/ \E t \in Threads : LkSymbol(t) /\ UNCHANGED restVars
    \/ \E t \in Threads : LkRelockKernel(t) /\ UNCHANGED restVars
    \/ \E t \in Threads : LkPublishKernel(t) /\ UNCHANGED restVars
    \/ \E t \in Threads : LkUnlock(t) /\ UNCHANGED restVars
    \/ \E t \in Threads : SignalAdd(t) /\ UNCHANGED restVars
    \/ \E t \in Threads : LoadIndex(t) /\ UNCHANGED restVars
    \/ \E t \in Threads : WritePacket(t) /\ UNCHANGED restVars
    \/ \E t \in Threads : StoreIndex(t) /\ UNCHANGED restVars
    \/ \E t \in Threads : Doorbell(t) /\ UNCHANGED restVars
    \/ \E l \in DOMAIN launches : UnitWait(l) /\ UNCHANGED restVars
    \/ \E l \in DOMAIN launches : UnitAdd(l) /\ UNCHANGED restVars
    \/ \E l \in DOMAIN launches : UnitSub(l) /\ UNCHANGED restVars
    \/ \E l \in DOMAIN launches : UnitDestroy(l) /\ UNCHANGED restVars
    \/ \E d \in Devices : DeviceExecute(d) /\ UNCHANGED restVars
    \/ \E t \in Threads, d \in Devices : CallSynchronize(t, d) /\ UNCHANGED restVars
    \/ \E t \in Threads : SyncReturn(t) /\ UNCHANGED restVars

Spec == Init /\ [][Next]_vars

\* Scheduling: a host thread that has written its packet goes on to store
\* the write index and ring the doorbell, and a detached thread takes each
\* of its steps once the step is possible.
LaunchIds == 1..(NumThreads * MaxCalls)

UnitStep(l) ==
    /\ l \in DOMAIN launches
    /\ (UnitWait(l) \/ UnitAdd(l) \/ UnitSub(l) \/ UnitDestroy(l))
    /\ UNCHANGED restVars

FairInit == InitWith(MaxCalls - LiveCalls) /\ RestIdle

FairSpec ==
    /\ FairInit
    /\ [][Next]_vars
    /\ \A t \in Threads :
          WF_vars((StoreIndex(t) \/ Doorbell(t)) /\ UNCHANGED restVars)
    /\ \A l \in LaunchIds : WF_vars(UnitStep(l))

TypeOK ==
    /\ profiling \in BOOLEAN
    /\ \A d \in Devices : locked[d] \in Threads \cup {NoThread}
    /\ \A t \in Threads : calls[t] \in 0..MaxCalls

\* ============================================================== claims
InLoadKernel(t) ==
    thr[t].pc \in {"lk_lock", "lk_find_prog", "lk_create", "lk_load_code",
                   "lk_freeze", "lk_validate", "lk_relock_prog",
                   "lk_publish_prog", "lk_find_kernel", "lk_symbol",
                   "lk_relock_kernel", "lk_publish_kernel", "lk_unlock"}

Building(t) ==
    thr[t].pc \in {"lk_load_code", "lk_freeze", "lk_validate"}

\* the thread has its tuple: the kernel object names the executable used
Resolved(t) == thr[t].kernel.kernel[1] # NoExec

\* the launch no longer counts as outstanding work of its device
Completed(l) ==
    IF launches[l].profiled THEN launches[l].subtracted >= 1
    ELSE launches[l].kernel_done

LaunchesOn(d) == {l \in DOMAIN launches : launches[l].dev = d}

\* C1: an entry of a device's program cache, once published under a source
\* identifier, is never replaced (first publish wins).
C1_FirstPublishWins ==
    [][\A d \in Devices : \A f \in DOMAIN programs[d] :
          programs'[d][f] = programs[d][f]]_vars

\* C2: all concurrent calls for one (device, source) resolve their kernel
\* against the same executable handle, the one reachable from the cache.
C2_SameExecutable ==
    \A t1 \in Threads : \A t2 \in Threads :
        (/\ Resolved(t1) /\ Resolved(t2)
         /\ thr[t1].dev = thr[t2].dev
         /\ thr[t1].filename = thr[t2].filename)
        => /\ thr[t1].kernel.kernel[1] = thr[t2].kernel.kernel[1]
           /\ thr[t1].kernel.kernel[1] = programs[thr[t1].dev][thr[t1].filename]

\* C3: every executable in a program cache, and every executable a kernel
\* symbol is resolved against, has completed code-object loading, freeze
\* and validate.
C3_OnlyValidated ==
    /\ \A d \in Devices : \A f \in DOMAIN programs[d] :
          execs[programs[d][f]].stage = "validated"
    /\ \A t \in Threads :
          thr[t].pc \in {"lk_find_kernel", "lk_symbol", "lk_relock_kernel",
                         "lk_publish_kernel", "lk_unlock"}
          => execs[thr[t].executable].stage = "validated"

\* a thread resolves a symbol against the published executable while
\* another thread is still building its own, unfinished executable
C3_Witness ==
    \E t1 \in Threads : \E t2 \in Threads :
        /\ thr[t1].pc = "lk_symbol"
        /\ thr[t1].filename \in DOMAIN programs[thr[t1].dev]
        /\ programs[thr[t1].dev][thr[t1].filename] = thr[t1].executable
        /\ Building(t2)
        /\ execs[thr[t2].executable].stage # "validated"

\* C4: a kernel cache entry, once inserted for (executable, kernel name), is
\* never modified or removed, and a call about to return holds a tuple
\* equal to the cached entry.
C4_KernelEntryImmutable ==
    /\ [](\A t \in Threads :
            thr[t].pc = "lk_unlock"
            => /\ thr[t].executable \in DOMAIN kernels[thr[t].dev]
               /\ thr[t].kernelname
                     \in DOMAIN kernels[thr[t].dev][thr[t].executable]
               /\ kernels[thr[t].dev][thr[t].executable][thr[t].kernelname]
                     = thr[t].kernel)
    /\ [][\A d \in Devices : \A e \in DOMAIN kernels[d] :
            \A k \in DOMAIN kernels[d][e] :
                /\ e \in DOMAIN kernels'[d]
                /\ k \in DOMAIN kernels'[d][e]
                /\ kernels'[d][e][k] = kernels[d][e][k]]_vars

\* a call that missed and resolved the symbol itself is about to emplace
\* under a key that another call has inserted in the meantime
C4_Witness ==
    \E t \in Threads :
        /\ thr[t].pc = "lk_publish_kernel"
        /\ thr[t].kernelname \in DOMAIN kernels[thr[t].dev][thr[t].executable]
        /\ kernels[thr[t].dev][thr[t].executable][thr[t].kernelname]
              = thr[t].kernel

\* C5: no two launches on one device obtain the same queue write index.
C5_OwnIndex ==
    \A l1 \in DOMAIN launches : \A l2 \in DOMAIN launches :
        (/\ l1 # l2
         /\ launches[l1].dev = launches[l2].dev
         /\ launches[l1].index # -1
         /\ launches[l2].index # -1)
        => launches[l1].index # launches[l2].index

C8_SynchronousLaunch ==
    \A l \in DOMAIN launches :
        (~launches[l].profiled /\ launches[l].returned)
        => launches[l].kernel_done

\* C8 (amended): with profiling disabled, the packet's completion signal is
\* the device signal, which stays above zero while the kernel of the launch
\* is incomplete, also after launch_kernel has returned.
C8_AsynchronousLaunch ==
    \A l \in DOMAIN launches :
        ~launches[l].profiled
        => /\ launches[l].launch_signal = DeviceSignal(launches[l].dev)
           /\ \A d \in Devices : \A i \in DOMAIN slots[d] :
                 slots[d][i].launch = l
                 => slots[d][i].completion_signal
                       = DeviceSignal(launches[l].dev)
           /\ ~launches[l].kernel_done => signal[launches[l].dev] >= 1

\* launch_kernel has returned and its kernel has not completed
C8_Witness ==
    \E l \in DOMAIN launches :
        /\ ~launches[l].profiled
        /\ launches[l].returned
        /\ ~launches[l].kernel_done
        /\ \A t \in Threads : thr[t].pc = "idle"

\* C9: with profiling enabled, each launch has its own signal, created once
\* with value 1 and at 1 until the kernel completes; the packet of the
\* launch carries that signal, not the device signal; no host thread waits
\* for it, the detached thread exists only once launch_kernel has returned.
C9_DedicatedSignal ==
    \A l \in DOMAIN launches :
        launches[l].profiled
        => /\ launches[l].launch_signal = LaunchSignal(l)
           /\ launches[l].created = 1
           /\ launches[l].value = IF launches[l].kernel_done THEN 0 ELSE 1
           /\ \A d \in Devices : \A i \in DOMAIN slots[d] :
                 slots[d][i].launch = l
                 => slots[d][i].completion_signal = LaunchSignal(l)
           /\ launches[l].unit # "none" <=> launches[l].returned

\* a profiled launch has returned while its kernel is incomplete and its
\* detached thread waits on the dedicated signal
C9_Witness ==
    \E l \in DOMAIN launches :
        /\ launches[l].profiled
        /\ launches[l].returned
        /\ ~launches[l].kernel_done
        /\ launches[l].unit = "wait"
        /\ launches[l].value = 1
        /\ \E d \in Devices : \E i \in DOMAIN slots[d] : slots[d][i].launch = l

RECURSIVE SumAdded(_)
\* sum of the elapsed times of the launches of S, each as often as added
SumAdded(S) ==
    IF S = {} THEN 0
    ELSE LET l == CHOOSE x \in S : TRUE
         IN  launches[l].elapsed * launches[l].added + SumAdded(S \ {l})

MaxArgs == 4

\* sizes[i] of the arguments a launch passes
ArgSizes == {1, 2, 3, 4, 8, 12, 16}
ArgLists == UNION {[1..n -> ArgSizes] : n \in 0..MaxArgs}

\* the dispatch path is at rest: every host thread has made all its calls
HsaIdle ==
    /\ InitWith(MaxCalls)
    /\ profiling = FALSE

align_address_Uncapped(base, align) ==
    ((base + align - 1) \div align) * align

\* the lambda align_address: align is capped at 8, base is rounded up
align_address(base, align) ==
    LET capped == IF align > 8 THEN 8 ELSE align
    IN  ((base + capped - 1) \div capped) * capped

PackInit ==
    /\ HsaIdle
    /\ LaunchExtIdle
    /\ DiscIdle
    /\ AllocIdle
    /\ CudaIdle
    /\ DtorIdle
    /\ sizes \in ArgLists
    /\ offset = 0
    /\ offsets = <<>>

\* one iteration of the loop over the arguments (i is Len(offsets) + 1)
PackArg ==
    /\ Len(offsets) < Len(sizes)
    /\ LET size == sizes[Len(offsets) + 1]
           dest == align_address(offset, size)
       IN  /\ offsets' = Append(offsets, dest)
           /\ offset' = dest + size
    /\ UNCHANGED <<sizes, notPackVars>>

PackNext == PackArg

PackSpec == PackInit /\ [][PackNext]_vars

\* end of argument i - 1 in the buffer, 0 for the first argument
EndOfPrevious(i) == IF i = 1 THEN 0 ELSE offsets[i - 1] + sizes[i - 1]

\* C11: argument i is copied at the smallest offset that is at least the
\* end of argument i - 1 (0 for the first) and a multiple of
\* min(size_i, 8); the packed size is the end of the last argument copied;
\* sizes [4, 8, 4, 16] are copied at offsets [0, 8, 16, 24], packed size 40.
C11_PackedInOrder ==
    /\ \A i \in 1..Len(offsets) :
          LET a == IF sizes[i] < 8 THEN sizes[i] ELSE 8
          IN  /\ offsets[i] >= EndOfPrevious(i)
              /\ offsets[i] % a = 0
              /\ \A n \in EndOfPrevious(i)..(offsets[i] - 1) : n % a # 0
    /\ offset = EndOfPrevious(Len(offsets) + 1)
    /\ (sizes = <<4, 8, 4, 16>> /\ Len(offsets) = 4)
          => (offsets = <<0, 8, 16, 24>> /\ offset = 40)

\* the four arguments of the example have all been copied
C11_Witness ==
    /\ sizes = <<4, 8, 4, 16>>
    /\ Len(offsets) = 4
    /\ offset = 40

\* ============================================ launches and their inputs
\* launch_kernel on devices with and without a queue, on files of every
\* kind (registered, on disk, missing, wrong extension), with argument
\* lists that do and do not fill the kernarg segment, and register_file
\* between the launches.
MissingGcn == <<"missing", ".", "gcn">>
NoExtension == <<"kernel">>
LaunchFileNames ==
    {KernelGcn, KernelAmdgpu, MissingGcn, KernelGcnBak, NoExtension}

\* program strings register_file is called with
ProgramStrings == {"text", "other"}

\* argument lists of a launch: SymbolInfo reports 8 bytes for kernel "f"
LaunchArgs == {<<8>>, <<4>>}

Running == fatal = NoError

\* error(...): prints the message and terminates the process
error(t, message) == fatal' = [message |-> message, thread |-> t]

\* load_file: the registered program string, else the content on disk
load_file(filename) ==
    IF filename \in DOMAIN files_ THEN files_[filename] ELSE "disk"

\* value of offset after the packing loop
RECURSIVE PackFrom(_, _, _)
PackFrom(argsizes, i, off) ==
    IF i > Len(argsizes) THEN off
    ELSE PackFrom(argsizes, i + 1,
                  align_address(off, argsizes[i]) + argsizes[i])

\* the kernarg buffer the thread allocated for the launch it is in
Kernarg(t) ==
    CHOOSE b \in DOMAIN kernargs :
        /\ kernargs[b].thread = t
        /\ \A c \in DOMAIN kernargs : kernargs[c].thread = t => c <= b

\* profiling is off here: the detached threads are covered by Spec
LaunchInit ==
    /\ InitWith(MaxCalls - LiveCalls)
    /\ profiling = FALSE
    /\ PackIdle
    /\ DiscIdle
    /\ AllocIdle
    /\ CudaIdle
    /\ DtorIdle
    /\ queue \in [Devices -> BOOLEAN]
    /\ fatal = NoError
    /\ jit \in BOOLEAN
    /\ args = [t \in Threads |-> <<>>]
    /\ kernargs = <<>>
    /\ exec_src = <<>>

\* a step of the dispatch path that touches none of the inputs above
Step(A) ==
    /\ Running
    /\ A
    /\ UNCHANGED <<launchExtVars, notLaunchVars>>

\* launch_kernel that goes on to load_kernel whatever devices_[dev].queue is
LaunchKernel_NoQueueCheck(t, d, filename, kernelname, argsizes) ==
    /\ Running
    /\ CallLaunchKernel(t, d, filename, kernelname)
    /\ args' = [args EXCEPT ![t] = argsizes]
    /\ UNCHANGED <<queue, fatal, jit, kernargs, exec_src, notLaunchVars>>

\* launch_kernel entry: a null queue is a fatal error, else load_kernel
LaunchKernel(t, d, filename, kernelname, argsizes) ==
    /\ Running
    /\ IF ~queue[d]
       THEN /\ thr[t].pc = "idle"
            /\ calls[t] < MaxCalls
            /\ error(t, "cannot execute kernels")
            /\ UNCHANGED <<hsaVars, args>>
       ELSE /\ CallLaunchKernel(t, d, filename, kernelname)
            /\ args' = [args EXCEPT ![t] = argsizes]
            /\ UNCHANGED fatal
    /\ UNCHANGED <<queue, jit, kernargs, exec_src, notLaunchVars>>

\* RegisterFile that drops the executables cached under the name
RegisterFile_Invalidate(filename, program_string) ==
    /\ Running
    /\ filename \notin DOMAIN files_ \/ files_[filename] # program_string
    /\ files_' = Put(files_, filename, program_string)
    /\ programs' = [d \in Devices |->
          [f \in DOMAIN programs[d] \ {filename} |-> programs[d][f]]]
    /\ UNCHANGED <<profiling, locked, kernels, execs, queueVars, launchVars,
                   thr, calls, launchExtVars, notLaunchVars>>

\* register_file: files_[filename] = program_string
RegisterFile(filename, program_string) ==
    /\ Running
    /\ filename \notin DOMAIN files_ \/ files_[filename] # program_string
    /\ files_' = Put(files_, filename, program_string)
    /\ UNCHANGED <<profiling, cacheVars, queueVars, launchVars, thr, calls,
                   launchExtVars, notLaunchVars>>

\* the record of an executable created from the file of thread t
Source(t, compiled) ==
    [code |-> load_file(thr[t].filename), compiled |-> compiled]

\* LkLoadSource that passes every source through compile_gcn
LkLoadSource_CompileAll(t) ==
    LET filename == thr[t].filename
    IN  /\ Running
        /\ thr[t].pc = "lk_create"
        /\ IF Ext(filename) \notin {<<"gcn">>, <<"amdgpu">>}
           THEN /\ error(t, "Incorrect extension for kernel file")
                /\ UNCHANGED <<hsaVars, exec_src>>
           ELSE IF ~Available(filename)
           THEN /\ error(t, "Could not find kernel file")
                /\ UNCHANGED <<hsaVars, exec_src>>
           ELSE \/ /\ jit
                   /\ LkCreate(t)
                   /\ exec_src' = Append(exec_src, Source(t, TRUE))
                   /\ UNCHANGED fatal
                \/ /\ error(t, IF jit THEN "emit_gcn"
                               ELSE "Recompile runtime with RUNTIME_JIT enabled")
                   /\ UNCHANGED <<hsaVars, exec_src>>
        /\ UNCHANGED <<queue, jit, args, kernargs, notLaunchVars>>

\* program-cache miss: the extension check, then the source by extension:
\* a .gcn file is loaded as it is, a .amdgpu file goes through compile_gcn
\* (emit_gcn: fatal without RUNTIME_ENABLE_JIT, else it compiles or fails),
\* then the executable is created
LkLoadSource(t) ==
    LET filename == thr[t].filename
    IN  /\ Running
        /\ thr[t].pc = "lk_create"
        /\ IF Ext(filename) \notin {<<"gcn">>, <<"amdgpu">>}
           THEN /\ error(t, "Incorrect extension for kernel file")
                /\ UNCHANGED <<hsaVars, exec_src>>
           ELSE IF ~Available(filename)
           THEN /\ error(t, "Could not find kernel file")
                /\ UNCHANGED <<hsaVars, exec_src>>
           ELSE IF Ext(filename) = <<"gcn">>
           THEN /\ LkCreate(t)
                /\ exec_src' = Append(exec_src, Source(t, FALSE))
                /\ UNCHANGED fatal
           ELSE \/ /\ jit
                   /\ LkCreate(t)
                   /\ exec_src' = Append(exec_src, Source(t, TRUE))
                   /\ UNCHANGED fatal
                \/ /\ error(t, IF jit THEN "emit_gcn"
                               ELSE "Recompile runtime with RUNTIME_JIT enabled")
                   /\ UNCHANGED <<hsaVars, exec_src>>
        /\ UNCHANGED <<queue, jit, args, kernargs, notLaunchVars>>

\* the kernarg buffer of thread t: allocated with the size of the kernel's
\* kernarg segment, the arguments packed into it
Buffer(t) ==
    [dev |-> thr[t].dev, thread |-> t, launch |-> NoLaunch,
     size |-> thr[t].kernel.kernarg_segment_size,
     offset |-> PackFrom(args[t], 1, 0),
     diagnostic |->
         PackFrom(args[t], 1, 0) # thr[t].kernel.kernarg_segment_size,
     packets |-> 0]

\* KernargPack that treats a size mismatch as a fatal error
KernargPack_ErrorOnMismatch(t) ==
    /\ Running
    /\ LkUnlock(t)
    /\ kernargs' = Append(kernargs, Buffer(t))
    /\ IF Buffer(t).diagnostic
       THEN error(t, "kernarg segment size differs from argument size")
       ELSE UNCHANGED fatal
    /\ UNCHANGED <<queue, jit, args, exec_src, notLaunchVars>>

\* load_kernel returns; hsa_memory_allocate of the kernarg buffer, the
\* packing loop and the debug() diagnostic on a size mismatch
KernargPack(t) ==
    /\ Running
    /\ LkUnlock(t)
    /\ kernargs' = Append(kernargs, Buffer(t))
    /\ UNCHANGED <<queue, fatal, jit, args, exec_src, notLaunchVars>>

\* hsa_signal_add_relaxed and the choice of launch_signal
LaunchSignalAdd(t) ==
    /\ Running
    /\ SignalAdd(t)
    /\ kernargs' = [kernargs EXCEPT ![Kernarg(t)].launch = Len(launches) + 1]
    /\ UNCHANGED <<queue, fatal, jit, args, exec_src, notLaunchVars>>

\* the dispatch packet is written into the ring
LaunchWritePacket(t) ==
    /\ Running
    /\ WritePacket(t)
    /\ kernargs' = [kernargs EXCEPT ![Kernarg(t)].packets = @ + 1]
    /\ UNCHANGED <<queue, fatal, jit, args, exec_src, notLaunchVars>>

LaunchNext ==
    \/ \E t \in Threads, d \in Devices, f \in LaunchFileNames,
          k \in KernelNames, a \in LaunchArgs : LaunchKernel(t, d, f, k, a)
    \/ \E p \in ProgramStrings : RegisterFile(KernelGcn, p)
    \/ \E t \in Threads : Step(LkLock(t))
    \/ \E t \in Threads : Step(LkFindProg(t))
    \/ \E t \in Threads : LkLoadSource(t)
    \/ \E t \in Threads : Step(LkLoadCode(t))
    \/ \E t \in Threads : Step(LkFreeze(t))
    \/ \E t \in Threads : Step(LkValidate(t))
    \/ \E t \in Threads : Step(LkRelockProg(t))
    \/ \E t \in Threads : Step(LkPublishProg(t))
    \/ \E t \in Threads : Step(LkFindKernel(t))
    \/ \E t \in Threads : Step(LkSymbol(t))
    \/ \E t \in Threads : Step(LkRelockKernel(t))
    \/ \E t \in Threads : Step(LkPublishKernel(t))
    \/ \E t \in Threads : KernargPack(t)
    \/ \E t \in Threads : LaunchSignalAdd(t)
    \/ \E t \in Threads : Step(LoadIndex(t))
    \/ \E t \in Threads : LaunchWritePacket(t)
    \/ \E t \in Threads : Step(StoreIndex(t))
    \/ \E t \in Threads : Step(Doorbell(t))
    \/ \E d \in Devices : Step(DeviceExecute(d))

LaunchSpec == LaunchInit /\ [][LaunchNext]_vars

\* C12: a launch whose packed size differs from the kernarg segment size
\* only logs the diagnostic: the process is not terminated, the launch
\* increments the in-flight counter of its device and submits exactly one
\* dispatch packet, as a launch whose sizes match does.
C12_MismatchOnlyLogged ==
    /\ [](\A b \in DOMAIN kernargs :
            /\ kernargs[b].diagnostic <=> kernargs[b].offset # kernargs[b].size
            /\ kernargs[b].packets <= 1
            /\ kernargs[b].launch # NoLaunch =>
                  /\ kernargs[b].launch \in DOMAIN launches
                  /\ launches[kernargs[b].launch].dev = kernargs[b].dev
                  /\ launches[kernargs[b].launch].returned =>
                        kernargs[b].packets = 1)
    /\ [][\A t \in Threads :
            (thr[t].pc = "lk_unlock" /\ thr'[t].pc # "lk_unlock") =>
                /\ fatal' = NoError
                /\ thr'[t].pc = "signal_add"]_vars
    /\ [][\A t \in Threads :
            (thr[t].pc = "signal_add" /\ thr'[t].pc # "signal_add") =>
                /\ signal'[thr[t].dev] = signal[thr[t].dev] + 1
                /\ thr'[t].pc = "load_index"]_vars

\* a launch that logged the diagnostic has returned, its packet submitted
C12_Witness ==
    \E b \in DOMAIN kernargs :
        /\ kernargs[b].diagnostic
        /\ kernargs[b].launch # NoLaunch
        /\ launches[kernargs[b].launch].returned
        /\ kernargs[b].packets = 1
        /\ fatal = NoError

\* C13: launch_kernel on a device whose queue is null raises the fatal
\* error before anything else: the step leaves the program cache, the
\* kernel cache, the in-flight counter and every queue unchanged and
\* allocates no kernarg buffer, so a device without a queue stays as it
\* was constructed and no thread is ever inside a launch on it.
C13_NullQueueFatal ==
    /\ [](\A d \in Devices : ~queue[d] =>
            /\ programs[d] = EmptyMap
            /\ kernels[d] = EmptyMap
            /\ signal[d] = 0
            /\ write_index[d] = 0
            /\ \A i \in DOMAIN slots[d] : ~IsPacket(slots[d][i])
            /\ \A b \in DOMAIN kernargs : kernargs[b].dev # d
            /\ \A e \in DOMAIN execs : execs[e].dev # d
            /\ \A t \in Threads : thr[t].pc # "idle" => thr[t].dev # d)
    /\ [][(fatal = NoError /\ fatal'.message = "cannot execute kernels") =>
            /\ \E d \in Devices : ~queue[d]
            /\ UNCHANGED <<cacheVars, queueVars, launchVars, kernargs,
                           exec_src, files_>>]_vars

\* the launch on the queue-less device has terminated the process
C13_Witness ==
    /\ \E d \in Devices : ~queue[d]
    /\ fatal.message = "cannot execute kernels"
    /\ fatal.thread \in Threads
    /\ kernargs = <<>>

\* C14: source ids alias by name only. register_file touches neither the
\* program cache nor any executable, the code an executable was created
\* from never changes, and a load_kernel that finds the file name in the
\* program cache creates no executable and goes on with the cached one,
\* whatever program string is registered under the name by then.
C14_AliasByName ==
    /\ [][files_' # files_ =>
            UNCHANGED <<programs, kernels, execs, exec_src>>]_vars
    /\ [][\A e \in DOMAIN exec_src : exec_src'[e] = exec_src[e]]_vars
    /\ [][\A t \in Threads :
            (/\ thr[t].pc = "lk_find_prog"
             /\ thr'[t].pc # "lk_find_prog"
             /\ thr[t].filename \in DOMAIN programs[thr[t].dev]) =>
                /\ UNCHANGED <<execs, exec_src, programs>>
                /\ thr'[t].pc = "lk_find_kernel"
                /\ thr'[t].executable =
                      programs[thr[t].dev][thr[t].filename]]_vars

\* one launch compiled "text" and returned, the name was registered again
\* with "other", and the second launch goes on with the only executable
C14_Witness ==
    /\ Len(execs) = 1
    /\ exec_src[1].code = "text"
    /\ files_[KernelGcn] = "other"
    /\ \E l \in DOMAIN launches : launches[l].returned
    /\ \E t \in Threads :
          /\ thr[t].pc = "lk_find_kernel"
          /\ thr[t].filename = KernelGcn
          /\ thr[t].executable = 1
          /\ programs[thr[t].dev][KernelGcn] = 1

\* C15: on a program-cache miss the source is routed by the final
\* extension of the file name: an executable of a .gcn file is created from
\* the file as it is, one of a .amdgpu file from the output of compile_gcn;
\* a file with any other extension, or one that is neither registered nor
\* readable, terminates the process, the step leaving the program cache and
\* the kernel cache unchanged, with the device lock not held by the thread.
C15_RoutedByExtension ==
    /\ [](\A e \in DOMAIN execs :
            /\ Ext(execs[e].file) \in {<<"gcn">>, <<"amdgpu">>}
            /\ Available(execs[e].file)
            /\ exec_src[e].compiled <=> Ext(execs[e].file) = <<"amdgpu">>)
    /\ [](\A t \in Threads :
            thr[t].pc = "lk_create" => locked[thr[t].dev] # t)
    /\ [][\A t \in Threads :
            (thr[t].pc = "lk_create" /\ fatal'.thread = t) =>
                /\ UNCHANGED <<programs, kernels, locked, execs, exec_src>>
                /\ locked[thr[t].dev] # t
                /\ fatal'.message = "Incorrect extension for kernel file"
                      <=> Ext(thr[t].filename) \notin {<<"gcn">>, <<"amdgpu">>}
                /\ fatal'.message = "Could not find kernel file"
                      <=> (/\ Ext(thr[t].filename) \in {<<"gcn">>, <<"amdgpu">>}
                           /\ ~Available(thr[t].filename))]_vars
    /\ [][\A t \in Threads :
            (/\ thr[t].pc = "lk_create"
             /\ thr'[t].pc # "lk_create"
             /\ \/ Ext(thr[t].filename) \notin {<<"gcn">>, <<"amdgpu">>}
                \/ ~Available(thr[t].filename)) => fatal'.thread = t]_vars

\* an executable has been compiled from a .amdgpu file, and a launch of a
\* file with another final extension has terminated the process
C15_Witness ==
    /\ \E e \in DOMAIN execs :
          exec_src[e].compiled /\ execs[e].file = KernelAmdgpu
    /\ fatal.message = "Incorrect extension for kernel file"
    /\ thr[fatal.thread].filename = KernelGcnBak
    /\ locked[thr[fatal.thread].dev] # fatal.thread

\* ====================================================== device discovery
\* hsa_iterate_agents calls iterate_agents_callback for each agent, which
\* calls iterate_regions_callback for each region of the agent. Every
\* driver call returns a status; one action per call.
MaxAgents == 2

\* names are sequences of tokens, "-" being the separator rfind looks for
IsaName == <<"amdgcn", "-", "amd", "-", "amdhsa", "-", "-", "gfx803">>
VendorName == <<"AMD">>
AgentName == <<"gfx803">>

\* flags of the regions an agent may have, in enumeration order
RegionLists ==
    {<<>>,
     <<{"KERNARG", "FINE_GRAINED"}>>,
     <<{"KERNARG", "FINE_GRAINED"}, {"COARSE_GRAINED"}>>}

\* what the driver reports for an agent
AgentKinds == [queue_size : {0, QueueSize}, regions : RegionLists]
AgentLists == UNION {[1..n -> AgentKinds] : n \in 0..MaxAgents}

\* the driver calls of iterate_agents_callback, in program order
AgentCalls ==
    <<"HSA_AGENT_INFO_NAME", "HSA_AGENT_INFO_VENDOR_NAME",
      "HSA_AGENT_INFO_PROFILE", "HSA_AGENT_INFO_DEFAULT_FLOAT_ROUNDING_MODE",
      "HSA_AGENT_INFO_ISA", "HSA_ISA_INFO_NAME_LENGTH", "HSA_ISA_INFO_NAME",
      "HSA_AGENT_INFO_DEVICE", "HSA_AGENT_INFO_VERSION_MAJOR",
      "HSA_AGENT_INFO_VERSION_MINOR", "HSA_AGENT_INFO_QUEUE_MAX_SIZE",
      "hsa_queue_create", "hsa_amd_profiling_set_profiler_enabled",
      "hsa_signal_create">>

\* the driver calls of iterate_regions_callback, in program order
RegionCalls ==
    <<"HSA_REGION_INFO_SEGMENT", "HSA_REGION_INFO_GLOBAL_FLAGS",
      "HSA_REGION_INFO_RUNTIME_ALLOC_ALLOWED">>

\* the calls whose status is passed to CHECK_HSA
Checked(call) ==
    call \notin {"HSA_ISA_INFO_NAME_LENGTH", "HSA_ISA_INFO_NAME"}

QueueWanted_Always(queue_size) == TRUE

\* if (queue_size > 0)
QueueWanted(queue_size) == queue_size > 0

\* position of the last "-" of a name, 0 if there is none (rfind)
RFindDash(name) ==
    LET dashes == {i \in 1..Len(name) : name[i] = "-"}
    IN  IF dashes = {} THEN 0
        ELSE CHOOSE i \in dashes : \A j \in dashes : j <= i

\* name_string.substr(dash_pos + 1), "" if there is no dash
IsaOf(name) ==
    IF RFindDash(name) = 0 THEN <<>>
    ELSE SubSeq(name, RFindDash(name) + 1, Len(name))

\* region handle { 0 }
NoRegion == <<0, 0>>

\* position at the start of the callback for agent a
AgentStart(a) ==
    [pc |-> "agent", agent |-> a, call |-> 1, region |-> 0, name |-> <<>>,
     isa |-> <<>>, queue |-> FALSE, queues_created |-> 0,
     signals_created |-> 0]

DiscInit ==
    /\ HsaIdle
    /\ PackIdle
    /\ LaunchExtIdle
    /\ AllocIdle
    /\ CudaIdle
    /\ DtorIdle
    /\ agents \in AgentLists
    /\ devices_ = <<>>
    /\ disc = IF agents = <<>> THEN [AgentStart(0) EXCEPT !.pc = "iterated"]
              ELSE AgentStart(1)
    /\ failed = {}

\* the device iterate_agents_callback appends once its calls have succeeded
NewDevice ==
    [agent |-> disc.agent, isa |-> disc.isa, queue |-> disc.queue,
     signal |-> 0, queues_created |-> disc.queues_created,
     signals_created |-> disc.signals_created + 1,
     kernarg_region |-> NoRegion, finegrained_region |-> NoRegion,
     coarsegrained_region |-> NoRegion]

\* the locals of iterate_agents_callback after a successful call
AfterCall(call) ==
    IF call = "HSA_AGENT_INFO_NAME"
    THEN [disc EXCEPT !.call = @ + 1, !.name = AgentName]
    ELSE IF call = "HSA_AGENT_INFO_VENDOR_NAME"
    THEN [disc EXCEPT !.call = @ + 1, !.name = VendorName]
    ELSE IF call = "HSA_ISA_INFO_NAME"
    THEN [disc EXCEPT !.call = @ + 1, !.name = IsaName,
                      !.isa = IsaOf(IsaName)]
    ELSE IF call = "hsa_queue_create"
    THEN [disc EXCEPT !.call = @ + 1, !.queue = TRUE,
                      !.queues_created = @ + 1]
    ELSE IF call = "hsa_signal_create"
    THEN [disc EXCEPT !.pc = "region", !.call = 1, !.region = 1,
                      !.signals_created = @ + 1]
    ELSE [disc EXCEPT !.call = @ + 1]

\* the locals after a call that failed with its status not checked
AfterUnchecked(call) ==
    IF call = "HSA_ISA_INFO_NAME"
    THEN [disc EXCEPT !.call = @ + 1, !.isa = IsaOf(disc.name)]
    ELSE [disc EXCEPT !.call = @ + 1]

\* the driver call at the current position returned an error
Failed(call) == failed' = failed \cup {<<disc.agent, disc.region, call>>}

\* one driver call of iterate_agents_callback; the two queue calls are
\* made only for an agent that reports a queue size above 0
AgentCall ==
    LET call == AgentCalls[disc.call]
    IN  /\ Running
        /\ disc.pc = "agent"
        /\ IF /\ call \in {"hsa_queue_create",
                           "hsa_amd_profiling_set_profiler_enabled"}
              /\ ~QueueWanted(agents[disc.agent].queue_size)
           THEN /\ disc' = [disc EXCEPT !.call = @ + 1]
                /\ UNCHANGED <<devices_, failed, fatal>>
           ELSE \/ /\ disc' = AfterCall(call)
                   /\ devices_' = IF call = "hsa_signal_create"
                                  THEN Append(devices_, NewDevice)
                                  ELSE devices_
                   /\ UNCHANGED <<failed, fatal>>
                \/ /\ Failed(call)
                   /\ IF Checked(call)
                      THEN error(NoThread, call) /\ UNCHANGED disc
                      ELSE disc' = AfterUnchecked(call) /\ UNCHANGED fatal
                   /\ UNCHANGED devices_
        /\ UNCHANGED <<agents, notDiscVars>>

\* the device under construction after the flags of a region are known
WithRegion(device, flags, region) ==
    [device EXCEPT
       !.kernarg_region = IF "KERNARG" \in flags THEN region ELSE @,
       !.finegrained_region = IF "FINE_GRAINED" \in flags THEN region ELSE @,
       !.coarsegrained_region =
           IF "COARSE_GRAINED" \in flags THEN region ELSE @]

\* one driver call of iterate_regions_callback
RegionCall ==
    LET call == RegionCalls[disc.call]
        dev == Len(devices_)
        flags == agents[disc.agent].regions[disc.region]
    IN  /\ Running
        /\ disc.pc = "region"
        /\ disc.region <= Len(agents[disc.agent].regions)
        /\ \/ /\ disc' = IF disc.call = Len(RegionCalls)
                         THEN [disc EXCEPT !.call = 1, !.region = @ + 1]
                         ELSE [disc EXCEPT !.call = @ + 1]
              /\ devices_' =
                    IF call = "HSA_REGION_INFO_GLOBAL_FLAGS"
                    THEN [devices_ EXCEPT ![dev] = WithRegion(@, flags,
                              <<disc.agent, disc.region>>)]
                    ELSE devices_
              /\ UNCHANGED <<failed, fatal>>
           \/ /\ Failed(call)
              /\ error(NoThread, call)
              /\ UNCHANGED <<disc, devices_>>
        /\ UNCHANGED <<agents, notDiscVars>>

\* hsa_agent_iterate_regions returns; the callback of the next agent starts
RegionsReturn ==
    /\ Running
    /\ disc.pc = "region"
    /\ disc.region > Len(agents[disc.agent].regions)
    /\ \/ /\ disc' = IF disc.agent = Len(agents)
                     THEN [disc EXCEPT !.pc = "iterated"]
                     ELSE AgentStart(disc.agent + 1)
          /\ UNCHANGED <<failed, fatal>>
       \/ /\ Failed("hsa_agent_iterate_regions")
          /\ error(NoThread, "hsa_agent_iterate_regions")
          /\ UNCHANGED disc
    /\ UNCHANGED <<agents, devices_, notDiscVars>>

\* hsa_iterate_agents returns to the constructor
AgentsReturn ==
    /\ Running
    /\ disc.pc = "iterated"
    /\ \/ /\ disc' = [disc EXCEPT !.pc = "done"]
          /\ UNCHANGED <<failed, fatal>>
       \/ /\ Failed("hsa_iterate_agents")
          /\ error(NoThread, "hsa_iterate_agents")
          /\ UNCHANGED disc
    /\ UNCHANGED <<agents, devices_, notDiscVars>>

DiscNext ==
    \/ AgentCall
    \/ RegionCall
    \/ RegionsReturn
    \/ AgentsReturn

DiscSpec == DiscInit /\ [][DiscNext]_vars

\* C16: device discovery never fails silently: the status of every driver
\* call made while enumerating an agent and its regions is checked, so once
\* a call has failed the process is terminated.
C16_EveryStatusChecked ==
    failed # {} => fatal # NoError

\* C17 as stated: after discovery the device table holds the agents at
\* dense ids in enumeration order, and every device has exactly one
\* hardware queue and exactly one completion signal, starting at 0.
C17_OneQueueEach ==
    disc.pc = "done" =>
        /\ Len(devices_) = Len(agents)
        /\ \A i \in DOMAIN devices_ :
              /\ devices_[i].agent = i
              /\ devices_[i].queue
              /\ devices_[i].queues_created = 1
              /\ devices_[i].signals_created = 1
              /\ devices_[i].signal = 0

\* C17, amended: the device table holds the agents at dense ids in
\* enumeration order; every device has exactly one completion signal,
\* starting at 0, and exactly one hardware queue if its agent reports a
\* queue size above 0, and no queue (a null queue) otherwise.
C17_DenseDevices ==
    /\ Len(devices_) <= Len(agents)
    /\ disc.pc \in {"iterated", "done"} => Len(devices_) = Len(agents)
    /\ \A i \in DOMAIN devices_ :
          /\ devices_[i].agent = i
          /\ devices_[i].signals_created = 1
          /\ devices_[i].signal = 0
          /\ devices_[i].queue <=> agents[i].queue_size > 0
          /\ devices_[i].queues_created =
                IF agents[i].queue_size > 0 THEN 1 ELSE 0

\* discovery has finished with two devices, the second without a queue
C17_Witness ==
    /\ disc.pc = "done"
    /\ fatal = NoError
    /\ Len(devices_) = 2
    /\ devices_[1].queue
    /\ ~devices_[2].queue

\* ============================================================ synchronize
\* C18: the completion signal of a device is at its rest value 0 while no
\* launch has been submitted to the device, and a synchronize called when
\* no launch has been submitted, or when every submitted launch has
\* completed, finds the signal at 0, so that its wait returns immediately.
C18_SynchronizeAtRest ==
    /\ [](\A d \in Devices : LaunchesOn(d) = {} => signal[d] = 0)
    /\ [][\A t \in Threads :
            (/\ thr[t].pc = "idle"
             /\ thr'[t].pc = "sync_wait"
             /\ \A l \in LaunchesOn(thr'[t].dev) : Completed(l))
            => /\ signal'[thr'[t].dev] = 0
               /\ thr'[t].seen = LaunchesOn(thr'[t].dev)]_vars

\* synchronize has been called on a device no launch was submitted to
C18_Witness ==
    \E t \in Threads :
        /\ thr[t].pc = "sync_wait"
        /\ LaunchesOn(thr[t].dev) = {}
        /\ thr[t].seen = {}
        /\ signal[thr[t].dev] = 0

\* ================================================================ alloc_hsa
\* alloc_hsa(size, region), called up to MaxAllocs times with sizes up to
\* MaxAllocSize on the regions of a device and on the zero handle.
MaxAllocs == 3
MaxAllocSize == 2

AllocSizes == 0..MaxAllocSize
AllocRegions == {<<1, 1>>, <<1, 2>>, NoRegion}

\* nullptr
NoPtr == 0

\* the record of an alloc_hsa call: its parameters, the hsa_memory_allocate
\* calls it made and the pointer it returned
AllocCall(size, region, driver, result) ==
    [size |-> size, region |-> region, driver |-> driver, result |-> result]

\* alloc_hsa without the test of the size
alloc_hsa_NoSizeTest(size, region) ==
    /\ Running
    /\ Len(allocs) < MaxAllocs
    /\ \/ /\ allocs' = Append(allocs, AllocCall(size, region,
                 <<[region |-> region, size |-> size]>>, Len(allocs) + 1))
          /\ UNCHANGED fatal
       \/ /\ allocs' = Append(allocs, AllocCall(size, region,
                 <<[region |-> region, size |-> size]>>, NoPtr))
          /\ error(NoThread, "hsa_memory_allocate()")
    /\ UNCHANGED notAllocVars

\* alloc_hsa: nullptr for size 0, else one hsa_memory_allocate in the
\* region, whose failure is fatal
alloc_hsa(size, region) ==
    /\ Running
    /\ Len(allocs) < MaxAllocs
    /\ IF size = 0
       THEN /\ allocs' = Append(allocs, AllocCall(size, region, <<>>, NoPtr))
            /\ UNCHANGED fatal
       ELSE \/ /\ allocs' = Append(allocs, AllocCall(size, region,
                      <<[region |-> region, size |-> size]>>,
                      Len(allocs) + 1))
               /\ UNCHANGED fatal
            \/ /\ allocs' = Append(allocs, AllocCall(size, region,
                      <<[region |-> region, size |-> size]>>, NoPtr))
               /\ error(NoThread, "hsa_memory_allocate()")
    /\ UNCHANGED notAllocVars

AllocInit ==
    /\ HsaIdle
    /\ PackIdle
    /\ LaunchExtIdle
    /\ DiscIdle
    /\ CudaIdle
    /\ DtorIdle
    /\ allocs = <<>>

AllocNext == \E size \in AllocSizes, region \in AllocRegions :
                 alloc_hsa(size, region)

AllocSpec == AllocInit /\ [][AllocNext]_vars

\* C19: alloc_hsa with size 0 returns null and makes no driver allocation
\* call, whatever the region; with a size above 0 it makes exactly one
\* driver allocation call, in the region it was given and of that size,
\* and returns the allocated pointer unless the call failed fatally.
C19_AllocOnlyNonZero ==
    \A a \in DOMAIN allocs :
        /\ allocs[a].size = 0 =>
              /\ allocs[a].result = NoPtr
              /\ allocs[a].driver = <<>>
        /\ allocs[a].size > 0 =>
              /\ Len(allocs[a].driver) = 1
              /\ allocs[a].driver[1].region = allocs[a].region
              /\ allocs[a].driver[1].size = allocs[a].size
              /\ allocs[a].result = NoPtr => fatal # NoError

\* a call with size 0 and a call with a size above 0, on the same region
C19_Witness ==
    \E a \in DOMAIN allocs : \E b \in DOMAIN allocs :
        /\ allocs[a].size = 0
        /\ allocs[b].size > 0
        /\ allocs[a].region = allocs[b].region
        /\ allocs[b].result # NoPtr
        /\ Len(allocs[b].driver) = 1

\* ===================================================== src/cuda/cu_runtime.cpp
\* set_problem_size, set_config_size and launch_kernel of the CUDA runtime.
\* A size_t argument is the pair of its high part and its low 32 bits; the
\* components of a dim3 are unsigned int. Block sizes are at least 1 (a
\* block component of 0 is a division by zero in launch_kernel).
ProblemSizes == {1, 100, 256}
BlockSizes == {1, 16}
HighParts == {0, 1}
SizeT(hi, lo) == [hi |-> hi, lo |-> lo]

\* conversion of a size_t to unsigned int: the low 32 bits
UnsignedInt(v) == v.lo

UDiv_RoundUp(a, b) == (a + b - 1) \div b

\* division of unsigned int: the quotient, the remainder dropped
UDiv(a, b) == a \div b

set_problem_size(size_x, size_y, size_z) ==
    /\ cuDimProblem' = Dim3(UnsignedInt(size_x), UnsignedInt(size_y),
                            UnsignedInt(size_z))
    /\ UNCHANGED <<cuDimBlock, cuLaunch, cuArgVars, notCudaVars>>

set_config_size(size_x, size_y, size_z) ==
    /\ cuDimBlock' = Dim3(UnsignedInt(size_x), UnsignedInt(size_y),
                          UnsignedInt(size_z))
    /\ UNCHANGED <<cuDimProblem, cuLaunch, cuArgVars, notCudaVars>>

\* launch_kernel that leaves the argument index where it is
launch_kernel_KeepIdx ==
    LET grid == Dim3(UDiv(cuDimProblem.x, cuDimBlock.x),
                     UDiv(cuDimProblem.y, cuDimBlock.y),
                     UDiv(cuDimProblem.z, cuDimBlock.z))
    IN  /\ cuLaunch' = [problem |-> cuDimProblem, block |-> cuDimBlock,
                        grid |-> grid]
        /\ cuPassed' = <<>>
        /\ UNCHANGED <<cuDimProblem, cuDimBlock, cuArgs, cuArgIdx,
                       cuArgIdxMax, notCudaVars>>

\* launch_kernel of cu_runtime.cpp: the grid, then cuLaunchKernel, then
\* the reset of the argument index
launch_kernel ==
    LET grid == Dim3(UDiv(cuDimProblem.x, cuDimBlock.x),
                     UDiv(cuDimProblem.y, cuDimBlock.y),
                     UDiv(cuDimProblem.z, cuDimBlock.z))
    IN  /\ cuLaunch' = [problem |-> cuDimProblem, block |-> cuDimBlock,
                        grid |-> grid]
        /\ cuArgIdx' = 0
        /\ cuPassed' = <<>>
        /\ UNCHANGED <<cuDimProblem, cuDimBlock, cuArgs, cuArgIdxMax,
                       notCudaVars>>

CudaInit ==
    /\ HsaIdle
    /\ PackIdle
    /\ LaunchExtIdle
    /\ DiscIdle
    /\ AllocIdle
    /\ CudaIdle
    /\ DtorIdle

CudaNext ==
    \/ \E h \in HighParts, x \in ProblemSizes, y \in ProblemSizes,
          z \in ProblemSizes :
          set_problem_size(SizeT(h, x), SizeT(h, y), SizeT(h, z))
    \/ \E h \in HighParts, x \in BlockSizes, y \in BlockSizes,
          z \in BlockSizes :
          set_config_size(SizeT(h, x), SizeT(h, y), SizeT(h, z))
    \/ launch_kernel

CudaSpec == CudaInit /\ [][CudaNext]_vars

\* the grid component g is the quotient of p by b with the remainder dropped
Truncated(g, p, b) == g * b <= p /\ p < (g + 1) * b

\* C20: launch_kernel passes to cuLaunchKernel the block last set by
\* set_config_size and the grid whose components are the components of the
\* problem size last set by set_problem_size divided by those of the block,
\* the remainder dropped: (256, 256, 1) with block (16, 16, 1) gives
\* (16, 16, 1), and a component 100 with block component 16 gives 6.
C20_GridTruncates ==
    /\ [](cuLaunch # NoCall =>
            /\ Truncated(cuLaunch.grid.x, cuLaunch.problem.x, cuLaunch.block.x)
            /\ Truncated(cuLaunch.grid.y, cuLaunch.problem.y, cuLaunch.block.y)
            /\ Truncated(cuLaunch.grid.z, cuLaunch.problem.z, cuLaunch.block.z)
            /\ (/\ cuLaunch.problem = Dim3(256, 256, 1)
                /\ cuLaunch.block = Dim3(16, 16, 1))
                  => cuLaunch.grid = Dim3(16, 16, 1)
            /\ (cuLaunch.problem.x = 100 /\ cuLaunch.block.x = 16)
                  => cuLaunch.grid.x = 6)
    /\ [][cuLaunch' # cuLaunch =>
            /\ cuLaunch'.problem = cuDimProblem
            /\ cuLaunch'.block = cuDimBlock]_vars

\* the launch of the example, and nothing set since
C20_Witness ==
    /\ cuLaunch.problem = Dim3(256, 256, 1)
    /\ cuLaunch.block = Dim3(16, 16, 1)
    /\ cuLaunch.grid = Dim3(16, 16, 1)
    /\ cuDimProblem = cuLaunch.problem
    /\ cuDimBlock = cuLaunch.block

\* ========================================================= lock discipline
\* positions of load_kernel at which the thread looks a cache up or inserts
\* into it, or is about to unlock
UnderLock ==
    {"lk_find_prog", "lk_publish_prog", "lk_find_kernel", "lk_publish_kernel",
     "lk_unlock"}

\* positions of load_kernel at which the thread loads or compiles the
\* source, builds the executable, resolves the symbol, or waits for the lock
OutsideLock ==
    {"lk_lock", "lk_create", "lk_load_code", "lk_freeze", "lk_validate",
     "lk_relock_prog", "lk_symbol", "lk_relock_kernel"}

\* thread t holds the lock of the device it works on
Holds(t) == locked[thr[t].dev] = t

\* C21: every lookup in and every insertion into a device's program cache
\* or kernel cache is made by a thread that holds the lock of that device,
\* and a thread does not hold the lock while it loads the source, creates,
\* loads, freezes and validates the executable, or resolves a kernel symbol.
C21_CachesUnderLock ==
    /\ [](\A t \in Threads :
            /\ thr[t].pc \in UnderLock => Holds(t)
            /\ thr[t].pc \in OutsideLock => ~Holds(t))
    /\ [][\A d \in Devices :
            (programs'[d] # programs[d] \/ kernels'[d] # kernels[d]) =>
                /\ locked[d] \in Threads
                /\ thr[locked[d]].dev = d
                /\ thr'[locked[d]] # thr[locked[d]]]_vars
    /\ [][\A t \in Threads :
            (thr'[t] # thr[t] /\ execs' # execs) => ~Holds(t)]_vars

\* one thread validates its executable while another holds the lock of the
\* same device for its program cache lookup
C21_Witness ==
    \E t \in Threads : \E u \in Threads :
        /\ thr[t].pc = "lk_validate"
        /\ thr[u].pc = "lk_find_prog"
        /\ thr[u].dev = thr[t].dev
        /\ locked[thr[t].dev] = u

\* ================================================== one submitting thread
\* The dispatch path with a single host thread making all the calls: the
\* other threads have made theirs.
MainThread == 1

SeqInit ==
    /\ profiling \in BOOLEAN
    /\ files_ = [f \in FileNames |-> "text"]
    /\ locked = [d \in Devices |-> NoThread]
    /\ programs = [d \in Devices |-> EmptyMap]
    /\ kernels = [d \in Devices |-> EmptyMap]
    /\ execs = <<>>
    /\ signal = [d \in Devices |-> 0]
    /\ write_index = [d \in Devices |-> 0]
    /\ read_index = [d \in Devices |-> 0]
    /\ slots = [d \in Devices |-> [i \in 0..(QueueSize - 1) |-> NoPacket]]
    /\ doorbell = [d \in Devices |-> 0]
    /\ launches = <<>>
    /\ anydsl_kernel_time = 0
    /\ thr = [t \in Threads |-> IdleThread]
    /\ calls = [t \in Threads |-> IF t = MainThread THEN 0 ELSE MaxCalls]
    /\ RestIdle

SeqSpec == SeqInit /\ [][Next]_vars

\* the launches submitted to the device of launch l before l
Earlier(l) == {k \in LaunchesOn(launches[l].dev) : k < l}

\* C22: inside a launch_kernel call the in-flight counter is incremented
\* first, then the packet is stored at slot (write index mod capacity),
\* then the write index is advanced by one, and only then the doorbell is
\* rung with the index; the launches a single thread issues one after
\* another take consecutive write indices in call order.
C22_StepOrder ==
    /\ [](\A t \in Threads :
            thr[t].pc \in {"load_index", "write_packet", "store_index",
                           "doorbell"} =>
                /\ thr[t].launch \in DOMAIN launches
                /\ ~launches[thr[t].launch].returned
                /\ thr[t].pc # "doorbell" => signal[thr[t].dev] >= 1)
    /\ [](\A t \in Threads :
            thr[t].pc \in {"store_index", "doorbell"} =>
                slots[thr[t].dev][thr[t].index % QueueSize].launch
                    \in {thr[t].launch, NoLaunch})
    /\ [](\A t \in Threads :
            /\ thr[t].pc \in {"write_packet", "store_index"} =>
                  write_index[thr[t].dev] = thr[t].index
            /\ thr[t].pc = "doorbell" =>
                  write_index[thr[t].dev] = thr[t].index + 1)
    /\ [][\A d \in Devices :
            doorbell'[d] # doorbell[d] =>
                /\ write_index[d] = doorbell'[d] + 1
                /\ thr[MainThread].pc = "doorbell"]_vars
    /\ [][\A d \in Devices :
            write_index'[d] # write_index[d] =>
                write_index'[d] = write_index[d] + 1]_vars
    /\ [](\A l \in DOMAIN launches :
            launches[l].index >= 0 =>
                launches[l].index = Cardinality(Earlier(l)))

\* the thread is about to ring the doorbell for its second launch, whose
\* packet took the index after that of the first
C22_Witness ==
    /\ thr[MainThread].pc = "doorbell"
    /\ thr[MainThread].launch = 2
    /\ launches[1].index = 0
    /\ launches[2].index = 1
    /\ write_index[launches[2].dev] = 2

\* ------------------------------------------------------ kernarg bounds
\* the size hsa_memory_allocate is given for the buffer of a launch of
\* kernel "f": the kernarg segment size load_kernel returned
KernargBufferSize == SymbolInfo(1, "f").kernarg_segment_size

\* C23: every argument of a launch is copied inside the kernarg buffer
\* allocated for the launch: offset_i + size_i <= kernarg_segment_size for
\* every argument i copied so far.
C23_PackedInsideBuffer ==
    \A i \in 1..Len(offsets) : offsets[i] + sizes[i] <= KernargBufferSize

\* ---------------------------------------------------------- ring capacity
\* thread t stores its packet into the ring in this step
WritesPacket(t) ==
    /\ thr[t].pc = "write_packet"
    /\ thr'[t].pc = "store_index"

\* C25: a packet is only written into a slot whose previous packet has been
\* consumed: at every packet write the write index the launch uses minus
\* the read index is less than the queue capacity.
C25_SlotFree ==
    [][\A t \in Threads :
          WritesPacket(t) =>
              thr[t].index - read_index[thr[t].dev] < QueueSize]_vars

\* ---------------------------------------------------------- lock discipline
\* the positions of load_kernel at which the next step is a driver call
\* followed by CHECK_HSA
DriverCalls ==
    {"lk_create", "lk_load_code", "lk_freeze", "lk_validate", "lk_symbol"}

\* CHECK_HSA: the driver call of the step returns an error status
LkDriverError(t) ==
    /\ Running
    /\ thr[t].pc \in DriverCalls
    /\ error(t, "HSA API function")
    /\ UNCHANGED <<hsaVars, queue, jit, args, kernargs, exec_src,
                   notLaunchVars>>

LockNext ==
    \/ LaunchNext
    \/ \E t \in Threads : LkDriverError(t)

LockSpec == LaunchInit /\ [][LockNext]_vars

\* the positions from which a thread calls hsa_dev.lock()
Locking == {"lk_lock", "lk_relock_prog", "lk_relock_kernel"}

\* C26: in load_kernel the lock and unlock calls of a thread alternate,
\* first a lock and last an unlock, on the hit and miss paths of both
\* caches: a thread holds the device lock exactly at the positions between
\* a lock and the next unlock, it never locks a lock that is held, the lock
\* is only released by a step of its holder, no thread outside load_kernel
\* holds it, and the thread that raises a fatal error does not hold it.
C26_LockAlternates ==
    /\ [](\A t \in Threads : Holds(t) <=> thr[t].pc \in UnderLock)
    /\ [](\A d \in Devices :
            locked[d] \in Threads => thr[locked[d]].dev = d)
    /\ [](fatal.thread \in Threads =>
            \A d \in Devices : locked[d] # fatal.thread)
    /\ [][\A d \in Devices :
            locked'[d] # locked[d] =>
                \/ /\ locked[d] = NoThread
                   /\ locked'[d] \in Threads
                   /\ thr[locked'[d]].pc \in Locking
                   /\ thr'[locked'[d]].pc \in UnderLock
                \/ /\ locked[d] \in Threads
                   /\ locked'[d] = NoThread
                   /\ thr[locked[d]].pc \in UnderLock
                   /\ thr'[locked[d]].pc \notin UnderLock]_vars

\* a driver call of the build fails in one thread while the other thread
\* holds the lock of the same device
C26_Witness ==
    /\ fatal.message = "HSA API function"
    /\ \E u \in Threads \ {fatal.thread} :
          /\ thr[u].dev = thr[fatal.thread].dev
          /\ Holds(u)

\* ------------------------------------------- kernel time at synchronize
RECURSIVE SumElapsed(_)
\* sum of the elapsed times of the profiled launches of S
SumElapsed(S) ==
    IF S = {} THEN 0
    ELSE LET l == CHOOSE x \in S : TRUE
         IN  (IF launches[l].profiled THEN launches[l].elapsed ELSE 0)
                 + SumElapsed(S \ {l})

\* thread t returns from synchronize in this step
SyncReturns(t) ==
    /\ thr[t].pc = "sync_wait"
    /\ thr'[t].pc # "sync_wait"

BufferNext ==
    \/ LaunchNext
    \/ \E t \in Threads, d \in Devices : Step(CallSynchronize(t, d))
    \/ \E t \in Threads : Step(SyncReturn(t))

BufferSpec == LaunchInit /\ [][BufferNext]_vars

\* the kernarg buffers of the launches of S that are allocated: launch_kernel
\* hands kernarg_address to the packet and never passes it to
\* hsa_memory_free, a buffer recorded in kernargs stays allocated
StillAllocated(S) == {b \in DOMAIN kernargs : kernargs[b].launch \in S}

\* C28: when a synchronize returns, no kernarg buffer that launch_kernel
\* allocated for a launch submitted before the synchronize call is still
\* allocated.
C28_KernargReleased ==
    [][\A t \in Threads :
          SyncReturns(t) => StillAllocated(thr[t].seen) = {}]_vars

\* ================================================================ teardown
\* ~HSAPlatform runs once the host threads have left the platform: for each
\* device in table order it destroys the executables of the program cache,
\* the queue if there is one and the signal, then it shuts the runtime down.
\* teardown.log lists the destroy calls in the order they are made.
Alive == teardown.pc = "live"

\* entry of the destructor, and of the loop body for the first device
DtorBegin ==
    /\ Running
    /\ Alive
    /\ \A t \in Threads : thr[t].pc = "idle"
    /\ teardown' = [teardown EXCEPT !.pc = "programs", !.dev = 0,
                                    !.pending = DOMAIN programs[0]]
    /\ UNCHANGED notDtorVars

\* one iteration of the loop over devices_[i].programs: the iteration
\* order of the map is not fixed here
DtorExecutable(filename) ==
    /\ teardown.pc = "programs"
    /\ filename \in teardown.pending
    /\ teardown' = [teardown EXCEPT
          !.pending = @ \ {filename},
          !.log = Append(@, <<"executable", teardown.dev,
                              programs[teardown.dev][filename]>>)]
    /\ UNCHANGED notDtorVars

\* DtorQueue that does not wait for the end of the loop over the programs
DtorQueue_Early ==
    /\ teardown.pc = "programs"
    /\ teardown' = [teardown EXCEPT
          !.pc = "signal",
          !.log = IF queue[teardown.dev]
                  THEN Append(@, <<"queue", teardown.dev, 0>>) ELSE @]
    /\ UNCHANGED notDtorVars

\* if (auto queue = devices_[i].queue) hsa_queue_destroy(queue)
DtorQueue ==
    /\ teardown.pc = "programs"
    /\ teardown.pending = {}
    /\ teardown' = [teardown EXCEPT
          !.pc = "signal",
          !.log = IF queue[teardown.dev]
                  THEN Append(@, <<"queue", teardown.dev, 0>>) ELSE @]
    /\ UNCHANGED notDtorVars

\* hsa_signal_destroy(devices_[i].signal), then the next device if any
DtorSignal ==
    /\ teardown.pc = "signal"
    /\ LET d == teardown.dev
           log == Append(teardown.log, <<"signal", d, 0>>)
       IN  teardown' =
              IF d + 1 \in Devices
              THEN [pc |-> "programs", dev |-> d + 1,
                    pending |-> DOMAIN programs[d + 1], log |-> log]
              ELSE [teardown EXCEPT !.pc = "shut_down", !.log = log]
    /\ UNCHANGED notDtorVars

\* hsa_shut_down()
ShutDown ==
    /\ teardown.pc = "shut_down"
    /\ teardown' = [teardown EXCEPT
          !.pc = "done", !.log = Append(@, <<"shut_down", 0, 0>>)]
    /\ UNCHANGED notDtorVars

\* a step of the dispatch path, made while the platform object is alive
Live(A) == Alive /\ A

TeardownNext ==
    \/ \E t \in Threads, d \in Devices, f \in LaunchFileNames,
          k \in KernelNames, a \in LaunchArgs :
             Live(LaunchKernel(t, d, f, k, a))
    \/ \E p \in ProgramStrings : Live(RegisterFile(KernelGcn, p))
    \/ \E t \in Threads : Live(Step(LkLock(t)))
    \/ \E t \in Threads : Live(Step(LkFindProg(t)))
    \/ \E t \in Threads : Live(LkLoadSource(t))
    \/ \E t \in Threads : Live(Step(LkLoadCode(t)))
    \/ \E t \in Threads : Live(Step(LkFreeze(t)))
    \/ \E t \in Threads : Live(Step(LkValidate(t)))
    \/ \E t \in Threads : Live(Step(LkRelockProg(t)))
    \/ \E t \in Threads : Live(Step(LkPublishProg(t)))
    \/ \E t \in Threads : Live(Step(LkFindKernel(t)))
    \/ \E t \in Threads : Live(Step(LkSymbol(t)))
    \/ \E t \in Threads : Live(Step(LkRelockKernel(t)))
    \/ \E t \in Threads : Live(Step(LkPublishKernel(t)))
    \/ \E t \in Threads : Live(KernargPack(t))
    \/ \E t \in Threads : Live(LaunchSignalAdd(t))
    \/ \E t \in Threads : Live(Step(LoadIndex(t)))
    \/ \E t \in Threads : Live(LaunchWritePacket(t))
    \/ \E t \in Threads : Live(Step(StoreIndex(t)))
    \/ \E t \in Threads : Live(Step(Doorbell(t)))
    \/ \E d \in Devices : Live(Step(DeviceExecute(d)))
    \/ DtorBegin
    \/ \E f \in LaunchFileNames : DtorExecutable(f)
    \/ DtorQueue
    \/ DtorSignal
    \/ ShutDown

TeardownSpec == LaunchInit /\ [][TeardownNext]_vars

\* how often the destroy call e has been made
Destroyed(e) ==
    Cardinality({i \in DOMAIN teardown.log : teardown.log[i] = e})

\* C24: every executable load_kernel has created is destroyed exactly once
\* by the destructor: when ~HSAPlatform has run, hsa_executable_destroy has
\* been called once on each executable ever created.
C24_EveryExecutableDestroyed ==
    teardown.pc = "done" =>
        \A h \in DOMAIN execs :
            Destroyed(<<"executable", execs[h].dev, h>>) = 1

\* positions of the destroy call e in the order of the calls
At(e) == {i \in DOMAIN teardown.log : teardown.log[i] = e}

\* the destroy calls made on the resources of device d
OfDevice(d) ==
    {i \in DOMAIN teardown.log :
        teardown.log[i][1] # "shut_down" /\ teardown.log[i][2] = d}

\* the destroy calls of one kind made for device d
Calls(kind, d) ==
    {i \in DOMAIN teardown.log :
        teardown.log[i][1] = kind /\ teardown.log[i][2] = d}

\* C29: the destructor destroys, for each device, every executable of its
\* program cache before the device's queue and the queue before the
\* device's signal; hsa_shut_down is called only after the resources of
\* every device have been released.
C29_TeardownOrder ==
    /\ \A d \in Devices :
          /\ \A i \in Calls("executable", d) :
                \A j \in Calls("queue", d) \cup Calls("signal", d) : i < j
          /\ \A i \in Calls("queue", d) : \A j \in Calls("signal", d) : i < j
          /\ Calls("signal", d) # {} =>
                /\ Cardinality(Calls("signal", d)) = 1
                /\ Cardinality(Calls("queue", d)) = IF queue[d] THEN 1 ELSE 0
                /\ \A f \in DOMAIN programs[d] :
                      Destroyed(<<"executable", d, programs[d][f]>>) = 1
    /\ \A i \in At(<<"shut_down", 0, 0>>) :
          /\ i = Len(teardown.log)
          /\ \A d \in Devices : Calls("signal", d) # {}
          /\ \A d \in Devices : \A j \in OfDevice(d) : j < i
    /\ teardown.pc = "done" => Destroyed(<<"shut_down", 0, 0>>) = 1

\* the destructor has run on a device with two cached executables and a
\* queue: both executables, then the queue, then the signal, then shutdown
C29_Witness ==
    /\ teardown.pc = "done"
    /\ \E d \in Devices :
          /\ Cardinality(Calls("executable", d)) = 2
          /\ Cardinality(Calls("queue", d)) = 1
          /\ Cardinality(Calls("signal", d)) = 1

\* ================================================= cu_runtime.cpp arguments
\* set_kernel_arg and launch_kernel of the CUDA runtime after init_cuda.
\* cuArgs is the array as allocated: element i of the C array is cuArgs[i+1].
MaxKernelArgs == 3
NumPointers == 3
HostPointers == 1..NumPointers

\* realloc(array, n elements): the old elements kept, the new ones not
\* written
realloc(array, n) ==
    [i \in 1..n |-> IF i <= Len(array) THEN array[i] ELSE Uninit]

\* set_kernel_arg(host)
set_kernel_arg(host) ==
    LET idx == cuArgIdx + 1
        grown == IF idx > cuArgIdxMax THEN realloc(cuArgs, idx) ELSE cuArgs
    IN  /\ cuArgIdx < MaxKernelArgs
        /\ cuArgIdx' = idx
        /\ cuArgIdxMax' = IF idx > cuArgIdxMax THEN idx ELSE cuArgIdxMax
        /\ cuArgs' = [grown EXCEPT ![idx] = host]
        /\ cuPassed' = Append(cuPassed, host)
        /\ UNCHANGED <<cuDimProblem, cuDimBlock, cuLaunch, notCudaVars>>

CudaArgNext ==
    \/ \E host \in HostPointers : set_kernel_arg(host)
    \/ launch_kernel

CudaArgSpec == CudaInit /\ [][CudaArgNext]_vars

\* C30: after init_cuda and any sequence of set_kernel_arg and
\* launch_kernel, 0 <= cuArgIdx <= cuArgIdxMax and cuArgIdxMax never
\* decreases; the k-th set_kernel_arg since the last launch (or since
\* init_cuda) has stored its pointer at cuArgs[k-1], inside the allocated
\* array; launch_kernel resets cuArgIdx to 0.
C30_ArgIndex ==
    /\ [](/\ 0 <= cuArgIdx
          /\ cuArgIdx <= cuArgIdxMax
          /\ Len(cuArgs) = cuArgIdxMax
          /\ cuArgIdx = Len(cuPassed)
          /\ \A k \in 1..Len(cuPassed) : cuArgs[k] = cuPassed[k])
    /\ [][cuArgIdxMax' >= cuArgIdxMax]_vars
    /\ [][cuArgIdx' = cuArgIdx + 1 \/ cuArgIdx' = 0]_vars
    /\ [][cuPassed' = <<>> => cuArgIdx' = 0]_vars

\* three arguments were set and launched, and the first argument of the next
\* launch has been stored over the old element 0
C30_Witness ==
    /\ cuArgIdxMax = 3
    /\ cuArgIdx = 1
    /\ cuLaunch # NoCall
    /\ cuArgs[1] = 2
    /\ cuArgs[2] = 1
    /\ cuArgs[3] = 1

====
